---------------------------- MODULE Spec2Model ----------------------------
(***************************************************************************)
(* A model of migrate-i18n (convert_project.py): the replacement-rule      *)
(* builder, the safe variable substitution, the rewrite engine, the file   *)
(* rewriter and the parallel dispatch of main.                             *)
(*                                                                         *)
(* Text is modelled at the level of characters: a Python str is a sequence *)
(* of one-character strings, so that searching, slicing and replacing are  *)
(* computed the way the code computes them.                                *)
(***************************************************************************)
EXTENDS Integers, Sequences, FiniteSets, TLC

VARIABLES
    \* replace_NLS_usage (one call, and a second call on its own result)
    input,        \* the content the first call was given
    patterns,     \* the rule list, as build_replacement_patterns returned it
    content,      \* the local variable content
    replaced,     \* the local set replaced
    pc,           \* position in replace_NLS_usage
    idx,          \* index of the rule the current loop is at
    run,          \* 1: first call, 2: the call on the first call's result
    result1,      \* the value the first call returned
    substLog,     \* the symbols whose substitution was executed (the debug log)
    \* regex_replace_variable_safely called on its own
    rrvs,
    \* build_replacement_patterns
    build,
    \* main: the files, the sub-lists, the worker pool, the holder phase
    mainst,
    \* cleanup_empty_lines called on its own
    clean,
    \* eclipse_jinto_setup.py: main
    jinto

rewriteVars == <<input, patterns, content, replaced, pc, idx, run, result1, substLog>>
vars == <<input, patterns, content, replaced, pc, idx, run, result1, substLog,
          rrvs, build, mainst, clean, jinto>>

-----------------------------------------------------------------------------
(* Python str operations on sequences of characters                         *)

Min(S) == CHOOSE i \in S : \A j \in S : i <= j

\* s[i:i+len(sub)] == sub, with i a 1-based index
IsAt(s, sub, i) ==
    /\ i >= 1
    /\ i + Len(sub) - 1 <= Len(s)
    /\ \A k \in 1..Len(sub) : s[i + k - 1] = sub[k]

\* str.find(sub, from): the first index >= from where sub occurs, 0 when none
Find(s, sub, from) ==
    LET hits == {i \in from..(Len(s) - Len(sub) + 1) : IsAt(s, sub, i)}
    IN  IF hits = {} THEN 0 ELSE Min(hits)

\* sub in s
Contains(s, sub) == Find(s, sub, 1) # 0

\* s[from:] with from a 1-based index
Tail_(s, from) == SubSeq(s, from, Len(s))

RECURSIVE ReplaceFrom(_, _, _, _)
ReplaceFrom(s, old, new, from) ==
    LET j == Find(s, old, from)
    IN  IF j = 0 THEN Tail_(s, from)
        ELSE SubSeq(s, from, j - 1) \o new \o ReplaceFrom(s, old, new, j + Len(old))

\* str.replace(old, new): every non-overlapping occurrence, left to right
StrReplace(s, old, new) == ReplaceFrom(s, old, new, 1)

\* the number of non-overlapping occurrences of sub in s, left to right
RECURSIVE CountFrom(_, _, _)
CountFrom(s, sub, from) ==
    LET j == Find(s, sub, from)
    IN  IF j = 0 THEN 0 ELSE 1 + CountFrom(s, sub, j + Len(sub))

RECURSIVE Concat(_)
Concat(ss) == IF ss = <<>> THEN <<>> ELSE Head(ss) \o Concat(Tail(ss))

Reverse(s) == [i \in 1..Len(s) |-> s[Len(s) + 1 - i]]

\* code points of the characters the model's texts are written in
Ord(c) ==
    CASE c = "\n" -> 10
      [] c = " "  -> 32
      [] c = "\"" -> 34
      [] c = "("  -> 40
      [] c = ")"  -> 41
      [] c = "*"  -> 42
      [] c = "."  -> 46
      [] c = "/"  -> 47
      [] c = "1"  -> 49
      [] c = "2"  -> 50
      [] c = ";"  -> 59
      [] c = "="  -> 61
      [] c = "A"  -> 65
      [] c = "B"  -> 66
      [] c = "F"  -> 70
      [] c = "M"  -> 77
      [] c = "N"  -> 78
      [] c = "S"  -> 83
      [] c = "_"  -> 95
      [] c = "a"  -> 97
      [] c = "b"  -> 98
      [] c = "c"  -> 99
      [] c = "e"  -> 101
      [] c = "g"  -> 103
      [] c = "i"  -> 105
      [] c = "j"  -> 106
      [] c = "l"  -> 108
      [] c = "m"  -> 109
      [] c = "n"  -> 110
      [] c = "o"  -> 111
      [] c = "p"  -> 112
      [] c = "q"  -> 113
      [] c = "r"  -> 114
      [] c = "s"  -> 115
      [] c = "t"  -> 116
      [] c = "u"  -> 117
      [] c = "v"  -> 118
      [] c = "w"  -> 119
      [] c = "x"  -> 120
      [] c = "y"  -> 121

\* a < b for Python str: lexicographic by code point
RECURSIVE StrLess(_, _)
StrLess(a, b) ==
    IF b = <<>> THEN FALSE
    ELSE IF a = <<>> THEN TRUE
    ELSE IF Head(a) # Head(b) THEN Ord(Head(a)) < Ord(Head(b))
    ELSE StrLess(Tail(a), Tail(b))


-----------------------------------------------------------------------------
(* Texts of the program                                                     *)

\* TEMPLATE_MESSAGE_VARIABLE: "{classname}.{variablename}"
TEMPLATE_MESSAGE_VARIABLE(classname, variablename) ==
    classname \o <<".">> \o variablename

\* TEMPLATE_MESSAGE_TOSTRING: '{classname}.getString("{variablename}")'
TEMPLATE_MESSAGE_TOSTRING(classname, variablename) ==
    classname \o <<".", "g", "e", "t", "S", "t", "r", "i", "n", "g", "(", "\"">>
              \o variablename \o <<"\"", ")">>

kwImport == <<"i", "m", "p", "o", "r", "t", " ">>
kwImportStatic == kwImport \o <<"s", "t", "a", "t", "i", "c", " ">>
kwString == <<"S", "t", "r", "i", "n", "g">>

\* format_cached("import {}.{}", package, classname)
ClassImport(package, classname) == kwImport \o package \o <<".">> \o classname

\* format_cached("import static {}.{}", package, FROM)
StaticImportVariable(package, FROM) == kwImportStatic \o package \o <<".">> \o FROM

\* format_cached("import static {}.{}.*", package, classname)
StaticImportStar(package, classname) ==
    kwImportStatic \o package \o <<".">> \o classname \o <<".", "*">>

-----------------------------------------------------------------------------
(* filepath_to_classname, line_to_variable                                  *)

Max(S) == CHOOSE i \in S : \A j \in S : j <= i

\* os.path.basename
Basename(filepath) ==
    LET slashes == {i \in 1..Len(filepath) : filepath[i] = "/"}
    IN  IF slashes = {} THEN filepath ELSE Tail_(filepath, Max(slashes) + 1)

\* os.path.splitext(name)[0]: cut at the last dot, unless only dots precede it
SplitextRoot(name) ==
    LET dots == {i \in 1..Len(name) : name[i] = "."}
        d == Max(dots)
    IN  IF dots = {} THEN name
        ELSE IF \A i \in 1..(d - 1) : name[i] = "." THEN name
        ELSE SubSeq(name, 1, d - 1)

filepath_to_classname(filepath) == SplitextRoot(Basename(filepath))

IsSpace(c) == c \in {" ", "\n", "\r", "\t"}

\* str.split(): the maximal runs of non-whitespace characters, in order
RECURSIVE SplitFrom(_, _)
SplitFrom(line, from) ==
    LET starts == {i \in from..Len(line) : ~IsSpace(line[i])}
    IN  IF starts = {} THEN <<>>
        ELSE LET b == Min(starts)
                 ends == {i \in b..Len(line) : IsSpace(line[i])}
                 e == IF ends = {} THEN Len(line) + 1 ELSE Min(ends)
             IN  <<SubSeq(line, b, e - 1)>> \o SplitFrom(line, e)

StrSplit(line) == SplitFrom(line, 1)

\* line_to_variable: the token after the first token "String", without ";".
\* err names the exception raised ("none" when a value is returned).
line_to_variable(line) ==
    LET elements == StrSplit(line)
        at == {i \in 1..Len(elements) : elements[i] = kwString}
    IN  IF at = {} THEN [err |-> "ValueError", value |-> <<>>]
        ELSE IF Min(at) + 1 > Len(elements) THEN [err |-> "IndexError", value |-> <<>>]
        ELSE [err |-> "none",
              value |-> StrReplace(elements[Min(at) + 1], <<";">>, <<>>)]

-----------------------------------------------------------------------------
(* build_replacement_patterns                                               *)
(* A rule is the tuple <<FROM, TO, classname, variablename, package>>.      *)

\* the sort key of a rule: (len(x[3]), x[3], len(x[2]), x[0])
SortKey(x) == <<Len(x[4]), x[4], Len(x[3]), x[1]>>

\* k1 < k2 for two such keys, as Python compares tuples
KeyLess(k1, k2) ==
    IF k1[1] # k2[1] THEN k1[1] < k2[1]
    ELSE IF k1[2] # k2[2] THEN StrLess(k1[2], k2[2])
    ELSE IF k1[3] # k2[3] THEN k1[3] < k2[3]
    ELSE StrLess(k1[4], k2[4])

\* x goes before the first element whose key is greater (a stable insertion)
RECURSIVE InsertSorted(_, _)
InsertSorted(sorted, x) ==
    IF sorted = <<>> THEN <<x>>
    ELSE IF KeyLess(SortKey(x), SortKey(Head(sorted))) THEN <<x>> \o sorted
    ELSE <<Head(sorted)>> \o InsertSorted(Tail(sorted), x)

\* sorted(patterns, key=...): stable, ascending
RECURSIVE SortedByKey(_)
SortedByKey(ps) ==
    IF ps = <<>> THEN <<>>
    ELSE InsertSorted(SortedByKey(SubSeq(ps, 1, Len(ps) - 1)), ps[Len(ps)])

\* sorted(filesandlines.items()): the file paths in ascending order
RECURSIVE SortedPaths(_)
SortedPaths(S) ==
    IF S = {} THEN <<>>
    ELSE LET m == CHOOSE p \in S : \A q \in S : ~StrLess(q, p)
         IN  <<m>> \o SortedPaths(S \ {m})

\* the tuple appended for one line of one holder file (lines 154-159)
RuleOf(filepath, line, package) ==
    LET classname == filepath_to_classname(filepath)
        variablename == line_to_variable(line).value
    IN  <<TEMPLATE_MESSAGE_VARIABLE(classname, variablename),
          TEMPLATE_MESSAGE_TOSTRING(classname, variablename),
          classname, variablename, package>>

\* the inner loop: one rule per line of the file, in the order of the lines
RulesOfFile(filepath, lines, package) ==
    [i \in 1..Len(lines) |-> RuleOf(filepath, lines[i], package)]

\* the outer loop over sorted(filesandlines.items())
RECURSIVE AppendedRules(_, _, _)
AppendedRules(paths, filesandlines, filesandpackages) ==
    IF paths = <<>> THEN <<>>
    ELSE RulesOfFile(Head(paths), filesandlines[Head(paths)],
                     filesandpackages[Head(paths)])
         \o AppendedRules(Tail(paths), filesandlines, filesandpackages)

\* sorted(patterns, key=...) without reversed
SortRulesAscending(ps) == SortedByKey(ps)

\* list(reversed(sorted(patterns, key=...)))
SortRules(ps) == Reverse(SortedByKey(ps))

build_replacement_patterns(filesandlines, filesandpackages) ==
    SortRules(AppendedRules(SortedPaths(DOMAIN filesandlines),
                            filesandlines, filesandpackages))

-----------------------------------------------------------------------------
(* regex_replace_variable_safely                                            *)

\* variablewithoutdot.search(content, pos): the first index i >= pos where a
\* character other than . and " stands, followed by variablename and by a
\* character other than "; 0 when there is none
SearchWithoutDot(s, variablename, pos) ==
    LET n == Len(variablename)
        hits == {i \in pos..(Len(s) - n - 1) :
                    /\ i >= 1
                    /\ s[i] \notin {".", "\""}
                    /\ IsAt(s, variablename, i + 1)
                    /\ s[i + n + 1] # "\""}
    IN  IF hits = {} THEN 0 ELSE Min(hits)

\* variableatstart.search(content, pos): ^ matches at the beginning of the
\* string only, so there is a match only for pos = 1, and it is at index 1
SearchAtStart(s, variablename, pos) ==
    IF /\ pos = 1
       /\ Len(s) >= Len(variablename) + 1
       /\ s[1] # "\""
       /\ IsAt(s, variablename, 2)
    THEN 1 ELSE 0

\* the first while loop (lines 189-194), from the match at index m
RECURSIVE WithoutDotLoop(_, _, _, _)
WithoutDotLoop(s, variablename, TO, m) ==
    IF m = 0 THEN s
    ELSE LET new == SubSeq(s, 1, m) \o TO \o Tail_(s, m + Len(variablename) + 1)
         IN  WithoutDotLoop(new, variablename, TO,
                            SearchWithoutDot(new, variablename, m + Len(TO) + 1))

\* the second while loop (lines 195-199), from the match at index m
RECURSIVE AtStartLoop(_, _, _, _)
AtStartLoop(s, variablename, TO, m) ==
    IF m = 0 THEN s
    ELSE LET new == SubSeq(s, 1, m - 1) \o TO \o Tail_(s, m + Len(variablename) + 1)
         IN  AtStartLoop(new, variablename, TO,
                         SearchAtStart(new, variablename, m + Len(TO) + 1))

regex_replace_variable_safely(s, variablename, TO) ==
    LET first == WithoutDotLoop(s, variablename, TO,
                                SearchWithoutDot(s, variablename, 1))
    IN  AtStartLoop(first, variablename, TO, SearchAtStart(first, variablename, 1))

-----------------------------------------------------------------------------
(* replace_NLS_usage                                                        *)
(* st is the record [content, replaced, log] of the call's local state; log *)
(* holds, in order, the symbol of every substitution the call executed (the *)
(* "replace ... by ..." records of logging.debug).                          *)

\* lines 273-281: the static import of the variable, then the bare variable
StaticVariableImportStep(st, rule) ==
    LET FROM == rule[1]
        TO == rule[2]
        classname == rule[3]
        variablename == rule[4]
        package == rule[5]
        classimport == ClassImport(package, classname)
        staticimportvariable == StaticImportVariable(package, FROM)
    IN  IF staticimportvariable \notin st.replaced
           /\ Contains(st.content, staticimportvariable)
        THEN LET c1 == StrReplace(st.content, staticimportvariable, classimport)
                 r1 == st.replaced \cup {staticimportvariable}
                 l1 == Append(st.log, staticimportvariable)
             IN  IF variablename \notin r1
                 THEN [content |-> regex_replace_variable_safely(c1, variablename, TO),
                       replaced |-> r1 \cup {variablename},
                       log |-> Append(l1, variablename)]
                 ELSE [content |-> c1, replaced |-> r1, log |-> l1]
        ELSE st

\* lines 282-286 without the test "variablename not in replaced"
StaticStarVariableStepUnguarded(st, rule) ==
    LET TO == rule[2]
        classname == rule[3]
        variablename == rule[4]
        package == rule[5]
        staticimportstar == StaticImportStar(package, classname)
    IN  IF Contains(st.content, staticimportstar)
        THEN [content |-> regex_replace_variable_safely(st.content, variablename, TO),
              replaced |-> st.replaced \cup {variablename},
              log |-> Append(st.log, variablename)]
        ELSE st

\* lines 282-286: the bare variable under a static star import
StaticStarVariableStep(st, rule) ==
    LET TO == rule[2]
        classname == rule[3]
        variablename == rule[4]
        package == rule[5]
        staticimportstar == StaticImportStar(package, classname)
    IN  IF Contains(st.content, staticimportstar) /\ variablename \notin st.replaced
        THEN [content |-> regex_replace_variable_safely(st.content, variablename, TO),
              replaced |-> st.replaced \cup {variablename},
              log |-> Append(st.log, variablename)]
        ELSE st

\* lines 287-291: the qualified reference
FromStep(st, rule) ==
    LET FROM == rule[1]
        TO == rule[2]
    IN  IF FROM \notin st.replaced /\ Contains(st.content, FROM)
        THEN [content |-> StrReplace(st.content, FROM, TO),
              replaced |-> st.replaced \cup {FROM},
              log |-> Append(st.log, FROM)]
        ELSE st

\* one iteration of the first loop (lines 261-291)
FirstLoopBody(st, rule) ==
    FromStep(StaticStarVariableStep(StaticVariableImportStep(st, rule), rule), rule)

\* one iteration of the second loop (lines 294-302)
SecondLoopBody(st, rule) ==
    LET classname == rule[3]
        package == rule[5]
        classimport == ClassImport(package, classname)
        staticimportstar == StaticImportStar(package, classname)
    IN  IF Contains(st.content, staticimportstar) /\ staticimportstar \notin st.replaced
        THEN [content |-> StrReplace(st.content, staticimportstar, classimport),
              replaced |-> st.replaced \cup {staticimportstar},
              log |-> Append(st.log, staticimportstar)]
        ELSE st

RECURSIVE FoldRules(_, _, _)
FoldRules(st, rules, second) ==
    IF rules = <<>> THEN st
    ELSE FoldRules(IF second THEN SecondLoopBody(st, Head(rules))
                             ELSE FirstLoopBody(st, Head(rules)),
                   Tail(rules), second)

\* the whole call, as a function of its arguments
replace_NLS_usage(c, rules) ==
    FoldRules(FoldRules([content |-> c, replaced |-> {}, log |-> <<>>], rules, FALSE),
              rules, TRUE).content

-----------------------------------------------------------------------------
(* The inputs of the model: holder files, their declarations, and the       *)
(* lines a source file is written from                                      *)

MaxRules == 2    \* declaration lines over all holder files
MaxLines == 2    \* lines of a source file

packageP == <<"p">>
packageQ == <<"q">>
dotJava == <<".", "j", "a", "v", "a">>

\* three holder files: two classes of one package, and a class of another
\* package with the name of the first
Holders ==
    << [path |-> <<"p", "/", "A">> \o dotJava, package |-> packageP],
       [path |-> <<"p", "/", "B">> \o dotJava, package |-> packageP],
       [path |-> <<"q", "/", "A">> \o dotJava, package |-> packageQ] >>

\* four variable names: F_a is the beginning of F_aa, _a is the end of F_a
\* and stands inside F_aa, g is the beginning of the accessor's name getString
VarNames == << <<"F", "_", "a", "a">>, <<"F", "_", "a">>, <<"_", "a">>, <<"g">> >>

\* a line NLS_variable_lines captures
DeclLine(v) ==
    <<" ", " ", "p", "u", "b", "l", "i", "c", " ", "s", "t", "a", "t", "i", "c", " ">>
    \o kwString \o <<" ">> \o v \o <<";", "\n">>

\* the declarations of a project: pairs <<holder, variable>> (indices), in
\* ascending order, a pair possibly twice (the same line twice in a file)
PairLeq(a, b) == a[1] < b[1] \/ (a[1] = b[1] /\ a[2] <= b[2])
DeclSeqsOf(holders, varnames, max) ==
    UNION {{s \in [1..n -> (1..Len(holders)) \X (1..Len(varnames))] :
                \A i \in 1..(n - 1) : PairLeq(s[i], s[i + 1])}
           : n \in 0..max}

\* the lines NLS_variable_lines captures in holder h, for the declarations s
RECURSIVE LinesOfHolder(_, _, _)
LinesOfHolder(s, h, varnames) ==
    IF s = <<>> THEN <<>>
    ELSE (IF Head(s)[1] = h THEN <<DeclLine(varnames[Head(s)[2]])>> ELSE <<>>)
         \o LinesOfHolder(Tail(s), h, varnames)

\* main, lines 495-498: filesandlines and filesandpackages of the NLS files
FilesAndLinesOf(holders, varnames, s) ==
    [p \in {holders[h].path : h \in 1..Len(holders)} |->
        LinesOfHolder(s, CHOOSE h \in 1..Len(holders) : holders[h].path = p, varnames)]
FilesAndPackagesOf(holders) ==
    [p \in {holders[h].path : h \in 1..Len(holders)} |->
        holders[CHOOSE h \in 1..Len(holders) : holders[h].path = p].package]

DeclSeqs == DeclSeqsOf(Holders, VarNames, MaxRules)
FilesAndLines(s) == FilesAndLinesOf(Holders, VarNames, s)
FilesAndPackages == FilesAndPackagesOf(Holders)

semicolonNl == <<";", "\n">>
assignX == <<"x", " ", "=", " ">>

\* the lines of a source file: the imports of a holder class, a use of a
\* variable by its bare name, a use qualified by the class name, and a use
\* qualified by a class that is no holder and whose name ends in a holder's
SourceLines ==
    {assignX \o <<"B">>
        \o TEMPLATE_MESSAGE_VARIABLE(filepath_to_classname(Holders[1].path), VarNames[2])
        \o semicolonNl}
    \cup
    {StaticImportStar(Holders[h].package, filepath_to_classname(Holders[h].path))
        \o semicolonNl : h \in 1..Len(Holders)}
    \cup {StaticImportVariable(Holders[h].package,
            TEMPLATE_MESSAGE_VARIABLE(filepath_to_classname(Holders[h].path), VarNames[v]))
        \o semicolonNl : h \in 1..Len(Holders), v \in 1..Len(VarNames)}
    \cup {assignX \o VarNames[v] \o semicolonNl : v \in 1..Len(VarNames)}
    \cup {assignX
          \o TEMPLATE_MESSAGE_VARIABLE(filepath_to_classname(Holders[h].path), VarNames[v])
          \o semicolonNl : h \in 1..Len(Holders), v \in 1..Len(VarNames)}

SourceTexts ==
    UNION {{Concat(ls) : ls \in [1..n -> SourceLines]} : n \in 0..MaxLines}

-----------------------------------------------------------------------------
(* The rewrite engine as a state machine: one call of replace_NLS_usage,    *)
(* then a second call on what the first returned                            *)

idle == "idle"

\* the values of rrvs, build and mainst while their part of the program is
\* not running
RrvsIdle == [pc |-> idle]
BuildIdle == [pc |-> idle]
MainIdle == [pc |-> idle]
CleanIdle == [pc |-> idle]
JintoIdle == [pc |-> idle]

\* the rewrite engine is not running
RewriteIdle ==
    /\ input = <<>>
    /\ patterns = <<>>
    /\ content = <<>>
    /\ replaced = {}
    /\ substLog = <<>>
    /\ pc = idle
    /\ idx = 0
    /\ run = 0
    /\ result1 = <<>>

Init ==
    /\ \E s \in DeclSeqs :
          patterns = build_replacement_patterns(FilesAndLines(s), FilesAndPackages)
    /\ input \in SourceTexts
    /\ content = input
    /\ replaced = {}
    /\ substLog = <<>>
    /\ pc = "loop1"
    /\ idx = 1
    /\ run = 1
    /\ result1 = <<>>
    /\ rrvs = RrvsIdle
    /\ build = BuildIdle
    /\ mainst = MainIdle
    /\ clean = CleanIdle
    /\ jinto = JintoIdle

LocalState == [content |-> content, replaced |-> replaced, log |-> substLog]

\* the body of the first for loop, for the rule at idx
FirstLoopStep ==
    /\ pc = "loop1"
    /\ idx <= Len(patterns)
    /\ LET st == FirstLoopBody(LocalState, patterns[idx])
       IN  /\ content' = st.content
           /\ replaced' = st.replaced
           /\ substLog' = st.log
    /\ idx' = idx + 1
    /\ UNCHANGED <<input, patterns, pc, run, result1, rrvs, build, mainst, clean, jinto>>

\* the first loop is exhausted: the second loop starts
FirstLoopExit ==
    /\ pc = "loop1"
    /\ idx > Len(patterns)
    /\ pc' = "loop2"
    /\ idx' = 1
    /\ UNCHANGED <<input, patterns, content, replaced, substLog, run, result1,
                   rrvs, build, mainst, clean, jinto>>

\* the body of the second for loop, for the rule at idx
SecondLoopStep ==
    /\ pc = "loop2"
    /\ idx <= Len(patterns)
    /\ LET st == SecondLoopBody(LocalState, patterns[idx])
       IN  /\ content' = st.content
           /\ replaced' = st.replaced
           /\ substLog' = st.log
    /\ idx' = idx + 1
    /\ UNCHANGED <<input, patterns, pc, run, result1, rrvs, build, mainst, clean, jinto>>

\* return content
Return ==
    /\ pc = "loop2"
    /\ idx > Len(patterns)
    /\ pc' = "done"
    /\ result1' = IF run = 1 THEN content ELSE result1
    /\ UNCHANGED <<input, patterns, content, replaced, substLog, idx, run,
                   rrvs, build, mainst, clean, jinto>>

\* replace_NLS_usage is called on the content it returned, with the same rules
CallAgain ==
    /\ pc = "done"
    /\ run = 1
    /\ run' = 2
    /\ replaced' = {}
    /\ substLog' = <<>>
    /\ pc' = "loop1"
    /\ idx' = 1
    /\ UNCHANGED <<input, patterns, content, result1, rrvs, build, mainst, clean, jinto>>

Next ==
    \/ FirstLoopStep
    \/ FirstLoopExit
    \/ SecondLoopStep
    \/ Return
    \/ CallAgain

Spec == Init /\ [][Next]_vars

-----------------------------------------------------------------------------
(* Properties of the rewrite engine                                         *)

\* s.split("\n")
RECURSIVE SplitLinesFrom(_, _)
SplitLinesFrom(s, from) ==
    LET nls == {i \in from..Len(s) : s[i] = "\n"}
    IN  IF nls = {} THEN <<Tail_(s, from)>>
        ELSE <<SubSeq(s, from, Min(nls) - 1)>> \o SplitLinesFrom(s, Min(nls) + 1)

SplitLines(s) == SplitLinesFrom(s, 1)

InLines == SplitLines(input)
OutLines == SplitLines(content)
HasLine(ls, l) == \E i \in 1..Len(ls) : ls[i] = l

FirstCallReturned == pc = "done" /\ run = 1

\* the statements of a source file that concern the rule r
StarImportStmt(r) == StaticImportStar(r[5], r[3]) \o <<";">>
VariableImportStmt(r) == StaticImportVariable(r[5], r[1]) \o <<";">>
ClassImportStmt(r) == ClassImport(r[5], r[3]) \o <<";">>
BareUseStmt(r) == assignX \o r[4] \o <<";">>
QualifiedUseStmt(r) == assignX \o r[1] \o <<";">>
AccessorStmt(r) == assignX \o r[2] \o <<";">>

\* line i of the input was the statement from and is the statement to in
\* what the call returned
Became(from, to) ==
    \A i \in 1..Len(InLines) :
        InLines[i] = from => (i <= Len(OutLines) /\ OutLines[i] = to)

\* C1: for every rule (C, V, P) and every content with the statement
\* import static P.C.* and bare uses of V, the call returns content in which
\* that statement is import P.C and every bare use of V is C.getString("V"),
\* for every variable of the rules that share the class C.
C1_StarImportRewrite ==
    FirstCallReturned =>
        \A k \in 1..Len(patterns) :
            HasLine(InLines, StarImportStmt(patterns[k])) =>
                /\ Became(StarImportStmt(patterns[k]), ClassImportStmt(patterns[k]))
                /\ Became(BareUseStmt(patterns[k]), AccessorStmt(patterns[k]))

\* no rule that carries the variable name v has its static import of the
\* variable or the static star import of its class in the input
NoImportFor(v) ==
    \A k \in 1..Len(patterns) :
        patterns[k][4] = v =>
            /\ ~HasLine(InLines, VariableImportStmt(patterns[k]))
            /\ ~HasLine(InLines, StarImportStmt(patterns[k]))

\* C2: for every rule (C, V, P) and every content with the statement
\* import static P.C.V, the call turns that statement into import P.C and
\* every bare use of V into C.getString("V"); the bare uses of a variable
\* whose imports (of the variable, of the class's members) are both absent
\* are left as they are.
C2_StaticVariableImportRewrite ==
    FirstCallReturned =>
        \A k \in 1..Len(patterns) :
            /\ HasLine(InLines, VariableImportStmt(patterns[k])) =>
                  /\ Became(VariableImportStmt(patterns[k]), ClassImportStmt(patterns[k]))
                  /\ Became(BareUseStmt(patterns[k]), AccessorStmt(patterns[k]))
            /\ NoImportFor(patterns[k][4]) =>
                  Became(BareUseStmt(patterns[k]), BareUseStmt(patterns[k]))

\* s occurs in l and is shorter
ProperSubstring(s, l) == Len(s) < Len(l) /\ Contains(l, s)

\* every line of the input is an import of the rule's variable or class, or
\* a use of the rule's variable: bare (then under one of the imports) or
\* qualified by the class
ReferencesOnly(r) ==
    /\ input # <<>>
    /\ \A i \in 1..Len(InLines) :
          InLines[i] \in {<<>>, StarImportStmt(r), VariableImportStmt(r),
                          BareUseStmt(r), QualifiedUseStmt(r)}
    /\ HasLine(InLines, BareUseStmt(r)) =>
          (HasLine(InLines, StarImportStmt(r)) \/ HasLine(InLines, VariableImportStmt(r)))
    /\ HasLine(InLines, BareUseStmt(r)) \/ HasLine(InLines, QualifiedUseStmt(r))

\* what a line that concerns the rule r is to read after the call
RewrittenLine(l, r) ==
    IF l \in {StarImportStmt(r), VariableImportStmt(r)} THEN ClassImportStmt(r)
    ELSE IF l \in {BareUseStmt(r), QualifiedUseStmt(r)} THEN AccessorStmt(r)
    ELSE l

\* C4: for two variables S and L of one holder class, S a proper substring of
\* L, and content that references only L, the call with the built rule list
\* returns exactly the accessor call of L for each reference: no accessor
\* call of S, no fragment of L left over.
C4_ShortNeverMatchesInsideLonger ==
    FirstCallReturned =>
        \A kl, ks \in 1..Len(patterns) :
            (/\ patterns[kl][3] = patterns[ks][3]
             /\ patterns[kl][5] = patterns[ks][5]
             /\ ProperSubstring(patterns[ks][4], patterns[kl][4])
             /\ ReferencesOnly(patterns[kl]))
            => OutLines = [i \in 1..Len(InLines) |-> RewrittenLine(InLines[i], patterns[kl])]

\* the number of records of the symbol in the log
Executions(symbol) == Cardinality({i \in 1..Len(substLog) : substLog[i] = symbol})

\* C5: within one call, the substitution of each distinct symbol (an import
\* string, a bare variable name, a fromPattern) is executed at most once,
\* also when several rules carry the symbol, and a symbol is in the set
\* replaced exactly when its substitution was executed in this call.
C5_AtMostOncePerSymbol ==
    /\ \A i \in 1..Len(substLog) : Executions(substLog[i]) = 1
    /\ replaced = {substLog[i] : i \in 1..Len(substLog)}

\* two rules carry the same variable name and the same fromPattern, both
\* symbols were substituted, and the call went on to the second loop
C5_Witness ==
    /\ pc = "done"
    /\ \E i, j \in 1..Len(patterns) :
          /\ i < j
          /\ patterns[i][4] = patterns[j][4]
          /\ patterns[i][1] = patterns[j][1]
          /\ patterns[i][4] \in replaced
          /\ patterns[i][1] \in replaced
          /\ HasLine(InLines, StarImportStmt(patterns[i]))

\* C6: the call on the content the first call returned, with the same rule
\* list, returns that content unchanged.
C6_Idempotent ==
    (pc = "done" /\ run = 2) => content = result1

\* the first call rewrote an import and a use, and the second call returned
C6_Witness ==
    /\ pc = "done"
    /\ run = 2
    /\ \E k \in 1..Len(patterns) :
          /\ HasLine(InLines, StarImportStmt(patterns[k]))
          /\ HasLine(InLines, BareUseStmt(patterns[k]))
          /\ HasLine(SplitLines(result1), ClassImportStmt(patterns[k]))
          /\ HasLine(SplitLines(result1), AccessorStmt(patterns[k]))

\* the reference of a use statement  x = <reference>;
UseToken(l) ==
    IF Len(l) > Len(assignX) + 1 /\ IsAt(l, assignX, 1) /\ l[Len(l)] = ";"
    THEN SubSeq(l, Len(assignX) + 1, Len(l) - 1)
    ELSE <<>>

\* the names before and after the first dot of a reference
ClassPart(t) == SubSeq(t, 1, Find(t, <<".">>, 1) - 1)
VarPart(t) == Tail_(t, Find(t, <<".">>, 1) + 1)

\* the line l is a use of a reference that holds FROM inside a longer token:
\* its class is no holder class, or its variable is declared nowhere
PartOfLongerToken(l, FROM) ==
    LET t == UseToken(l)
    IN  /\ t # <<>>
        /\ t # FROM
        /\ Contains(t, FROM)
        /\ \/ ClassPart(t) \notin {filepath_to_classname(Holders[h].path) : h \in 1..Len(Holders)}
           \/ VarPart(t) \notin {patterns[j][4] : j \in 1..Len(patterns)}

\* C17: for every rule (C, V), content in which the string C.V occurs only as
\* part of a longer token (XC.V with XC no holder class, C.VX with VX no
\* declared variable) is returned with the lines of those tokens unchanged.
C17_NoPartialTokenCollision ==
    FirstCallReturned =>
        \A k \in 1..Len(patterns) :
            (\A i \in 1..Len(InLines) :
                Contains(InLines[i], patterns[k][1])
                    => PartOfLongerToken(InLines[i], patterns[k][1]))
            => \A i \in 1..Len(InLines) :
                  Contains(InLines[i], patterns[k][1])
                      => (i <= Len(OutLines) /\ OutLines[i] = InLines[i])

-----------------------------------------------------------------------------
(* regex_replace_variable_safely on its own: every text over a small        *)
(* alphabet, a variable name and an accessor string                         *)

MaxLen == 4    \* characters of the content

SafeAlphabet == {"v", ".", "\"", ";"}
SafeTexts == UNION {[1..n -> SafeAlphabet] : n \in 0..MaxLen}
SafeVars == {<<"v">>, <<"v", "v">>}
SafeAccessors(v) == {<<"T">>, TEMPLATE_MESSAGE_TOSTRING(<<"A">>, v)}

InitSafe ==
    /\ RewriteIdle
    /\ \E c \in SafeTexts, v \in SafeVars :
          \E t \in SafeAccessors(v) :
              rrvs = [content |-> c, variablename |-> v, TO |-> t,
                      result |-> <<>>, pc |-> "call"]
    /\ build = BuildIdle
    /\ mainst = MainIdle
    /\ clean = CleanIdle
    /\ jinto = JintoIdle

\* the call of regex_replace_variable_safely(content, variablename, TO)
Substitute ==
    /\ rrvs.pc = "call"
    /\ rrvs' = [rrvs EXCEPT
                   !.result = regex_replace_variable_safely(rrvs.content,
                                                            rrvs.variablename, rrvs.TO),
                   !.pc = "done"]
    /\ UNCHANGED <<rewriteVars, build, mainst, clean, jinto>>

NextSafe == Substitute

SpecSafe == InitSafe /\ [][NextSafe]_vars

\* the reference: scanning from the left, every occurrence of v that is not
\* preceded by . or " and not followed by " is replaced by t, an occurrence
\* at the very beginning included; every other character is kept
RECURSIVE ReferenceFrom(_, _, _, _)
ReferenceFrom(s, v, t, i) ==
    IF i > Len(s) THEN <<>>
    ELSE IF /\ IsAt(s, v, i)
            /\ (i = 1 \/ s[i - 1] \notin {".", "\""})
            /\ (i + Len(v) > Len(s) \/ s[i + Len(v)] # "\"")
         THEN t \o ReferenceFrom(s, v, t, i + Len(v))
         ELSE <<s[i]>> \o ReferenceFrom(s, v, t, i + 1)

\* C7: regex_replace_variable_safely(content, V, T) returns the content in
\* which every stand-alone occurrence of V, also one at position 0, is
\* replaced by T and every other character is unchanged; occurrences after
\* a . or next to a " are untouched.
C7_SafeSubstitutionIsReference ==
    rrvs.pc = "done" =>
        rrvs.result = ReferenceFrom(rrvs.content, rrvs.variablename, rrvs.TO, 1)

\* C7, the case the claim names: the content is V followed by a character
\* other than " and holds V nowhere else; what is returned begins with T
C7_OccurrenceAtStartIsReplaced ==
    (/\ rrvs.pc = "done"
     /\ IsAt(rrvs.content, rrvs.variablename, 1)
     /\ Len(rrvs.content) > Len(rrvs.variablename)
     /\ rrvs.content[Len(rrvs.variablename) + 1] = ";"
     /\ CountFrom(rrvs.content, rrvs.variablename, 1) = 1)
    => IsAt(rrvs.result, rrvs.TO, 1)

-----------------------------------------------------------------------------
(* build_replacement_patterns as a state machine: the two nested loops,     *)
(* then the sort                                                            *)

MaxDecls == 3    \* declaration lines over all holder files

\* holder files with class names of different lengths, and one class name in
\* two packages; class is the stem of the file name
BuildHolders ==
    << [path |-> <<"p", "/", "A">> \o dotJava, package |-> packageP,
        class |-> <<"A">>],
       [path |-> <<"p", "/", "A", "B">> \o dotJava, package |-> packageP,
        class |-> <<"A", "B">>],
       [path |-> <<"q", "/", "A">> \o dotJava, package |-> packageQ,
        class |-> <<"A">>] >>

\* variable names of different lengths, and two of one length
BuildVarNames ==
    << <<"F", "_", "a", "a">>, <<"F", "_", "a">>, <<"F", "_", "b">>, <<"_", "a">> >>

InitBuild ==
    /\ RewriteIdle
    /\ rrvs = RrvsIdle
    /\ \E s \in DeclSeqsOf(BuildHolders, BuildVarNames, MaxDecls) :
          build = [decls |-> s,
                   filesandlines |-> FilesAndLinesOf(BuildHolders, BuildVarNames, s),
                   filesandpackages |-> FilesAndPackagesOf(BuildHolders),
                   todo |-> SortedPaths({BuildHolders[h].path :
                                            h \in 1..Len(BuildHolders)}),
                   line |-> 1,
                   patterns |-> <<>>,
                   pc |-> "loop"]
    /\ mainst = MainIdle
    /\ clean = CleanIdle
    /\ jinto = JintoIdle

\* lines 153-159: the tuple of the next line of the current file is appended
BuildAppend ==
    /\ build.pc = "loop"
    /\ build.todo # <<>>
    /\ build.line <= Len(build.filesandlines[Head(build.todo)])
    /\ build' = [build EXCEPT
                    !.patterns = Append(@, RuleOf(Head(build.todo),
                                     build.filesandlines[Head(build.todo)][build.line],
                                     build.filesandpackages[Head(build.todo)])),
                    !.line = @ + 1]
    /\ UNCHANGED <<rewriteVars, rrvs, mainst, clean, jinto>>

\* line 152: the lines of the current file are exhausted, the next file
BuildNextFile ==
    /\ build.pc = "loop"
    /\ build.todo # <<>>
    /\ build.line > Len(build.filesandlines[Head(build.todo)])
    /\ build' = [build EXCEPT !.todo = Tail(@), !.line = 1]
    /\ UNCHANGED <<rewriteVars, rrvs, mainst, clean, jinto>>

\* line 162: return list(reversed(sorted(patterns, key=...)))
BuildSortReturn ==
    /\ build.pc = "loop"
    /\ build.todo = <<>>
    /\ build' = [build EXCEPT !.patterns = SortRules(@), !.pc = "done"]
    /\ UNCHANGED <<rewriteVars, rrvs, mainst, clean, jinto>>

NextBuild ==
    \/ BuildAppend
    \/ BuildNextFile
    \/ BuildSortReturn

SpecBuild == InitBuild /\ [][NextBuild]_vars

\* the rule the claim names for a declaration <<holder, variable>>
ExpectedRule(d) ==
    LET C == BuildHolders[d[1]].class
        V == BuildVarNames[d[2]]
    IN  <<C \o <<".">> \o V,
          C \o <<".", "g", "e", "t", "S", "t", "r", "i", "n", "g", "(", "\"">> \o V
            \o <<"\"", ")">>,
          C, V, BuildHolders[d[1]].package>>

\* (len(V), V, len(C), fromPattern) of r1 >= that of r2
KeyGeq(r1, r2) ==
    \/ Len(r1[4]) > Len(r2[4])
    \/ /\ Len(r1[4]) = Len(r2[4])
       /\ \/ StrLess(r2[4], r1[4])
          \/ /\ r1[4] = r2[4]
             /\ \/ Len(r1[3]) > Len(r2[3])
                \/ /\ Len(r1[3]) = Len(r2[3])
                   /\ ~StrLess(r1[1], r2[1])

\* C3: exactly one rule (C.V, C.getString("V"), C, V, package) per pair
\* (holder file, declaration line), and for two adjacent rules r1 before r2
\* the key (len(V), V, len(C), fromPattern) of r1 is at least that of r2.
C3_RuleListOrdered ==
    build.pc = "done" =>
        /\ Len(build.patterns) = Len(build.decls)
        /\ \A j \in 1..Len(build.decls) :
              Cardinality({i \in 1..Len(build.patterns) :
                              build.patterns[i] = ExpectedRule(build.decls[j])})
              = Cardinality({i \in 1..Len(build.decls) :
                                ExpectedRule(build.decls[i]) = ExpectedRule(build.decls[j])})
        /\ \A i \in 1..(Len(build.patterns) - 1) :
              KeyGeq(build.patterns[i], build.patterns[i + 1])

\* three rules came out: a longer variable name before a shorter one, and
\* for one variable name the longer class name before the shorter
C3_Witness ==
    /\ build.pc = "done"
    /\ Len(build.patterns) = 3
    /\ Len(build.patterns[1][4]) > Len(build.patterns[2][4])
    /\ build.patterns[2][4] = build.patterns[3][4]
    /\ Len(build.patterns[2][3]) > Len(build.patterns[3][3])

-----------------------------------------------------------------------------
(* The Message-Holder Transformer: rewrite_NLS_Messages_file and its steps  *)

\* TEMPLATE_GETSTRING
TEMPLATE_GETSTRING ==
    <<"\n", " ", " ", "p", "u", "b", "l", "i", "c", " ", "s", "t", "a",
      "t", "i", "c", " ", "S", "t", "r", "i", "n", "g", " ", "g", "e", "t",
      "S", "t", "r", "i", "n", "g", "(", "S", "t", "r", "i", "n", "g", " ",
      "k", "e", "y", ")", " ", "{", "\n", " ", " ", " ", " ", "r", "e",
      "t", "u", "r", "n", " ", "M", "S", "G", ".", "g", "e", "t", "S", "t",
      "r", "i", "n", "g", "(", "k", "e", "y", ")", ";", "\n", " ", " ", "}">>

\* the resolver field of replace_static_constructor_with_resolver
ResourceBundle ==
    <<"p", "r", "i", "v", "a", "t", "e", " ", "s", "t", "a", "t", "i", "c",
      " ", "f", "i", "n", "a", "l", " ", "I", "M", "e", "s", "s", "a", "g",
      "e", "R", "e", "s", "o", "l", "v", "e", "r", " ", "M", "S", "G", " ",
      "=", " ", "n", "e", "w", " ", "R", "e", "s", "o", "u", "r", "c", "e",
      "B", "u", "n", "d", "l", "e", "M", "e", "s", "s", "a", "g", "e", "R",
      "e", "s", "o", "l", "v", "e", "r", "(", "B", "U", "N", "D", "L", "E",
      "_", "N", "A", "M", "E", ")", ";">>

staticBrace ==
    <<"s", "t", "a", "t", "i", "c", " ", "{">>

\* "import org.eclipse.osgi.util.NLS"
nlsImport ==
    <<"i", "m", "p", "o", "r", "t", " ", "o", "r", "g", ".", "e", "c", "l",
      "i", "p", "s", "e", ".", "o", "s", "g", "i", ".", "u", "t", "i", "l",
      ".", "N", "L", "S">>

\* ";\n".join(additional_imports) + ";\n\n"
importstring ==
    <<"i", "m", "p", "o", "r", "t", " ", "n", "e", "t", ".", "d", "i", "s",
      "y", ".", "c", "o", "m", "m", "o", "n", "s", ".", "c", "o", "r", "e",
      ".", "l", "o", "c", "a", "l", "e", ".", "I", "M", "e", "s", "s", "a",
      "g", "e", "R", "e", "s", "o", "l", "v", "e", "r", ";", "\n", "i",
      "m", "p", "o", "r", "t", " ", "n", "e", "t", ".", "d", "i", "s", "y",
      ".", "c", "o", "m", "m", "o", "n", "s", ".", "c", "o", "r", "e", ".",
      "l", "o", "c", "a", "l", "e", ".", "R", "e", "s", "o", "u", "r", "c",
      "e", "B", "u", "n", "d", "l", "e", "M", "e", "s", "s", "a", "g", "e",
      "R", "e", "s", "o", "l", "v", "e", "r", ";", "\n", "i", "m", "p",
      "o", "r", "t", " ", "j", "a", "v", "a", ".", "u", "t", "i", "l", ".",
      "M", "i", "s", "s", "i", "n", "g", "R", "e", "s", "o", "u", "r", "c",
      "e", "E", "x", "c", "e", "p", "t", "i", "o", "n", ";", "\n", "\n">>

extendsNLS ==
    <<" ", "e", "x", "t", "e", "n", "d", "s", " ", "N", "L", "S">>

\* the lines of a file as iterating over it yields them: each with its "\n",
\* the last one without when the file does not end in "\n"
RECURSIVE FileLinesFrom(_, _)
FileLinesFrom(s, from) ==
    LET nls == {i \in from..Len(s) : s[i] = "\n"}
    IN  IF from > Len(s) THEN <<>>
        ELSE IF nls = {} THEN <<Tail_(s, from)>>
        ELSE <<SubSeq(s, from, Min(nls))>> \o FileLinesFrom(s, Min(nls) + 1)

FileLines(s) == FileLinesFrom(s, 1)

\* the elements of ls that are not in the set drop, in order
RECURSIVE Without(_, _)
Without(ls, drop) ==
    IF ls = <<>> THEN <<>>
    ELSE (IF Head(ls) \in drop THEN <<>> ELSE <<Head(ls)>>) \o Without(Tail(ls), drop)

\* remove_lines_from_file: what is written to the file, and what is returned
remove_lines_from_file(filecontent, lines) ==
    LET linesset == {lines[i] : i \in 1..Len(lines)}
        all == FileLines(filecontent)
    IN  [written |-> Concat(Without(all, linesset)),
         changed |-> \E i \in 1..Len(all) : all[i] \in linesset]

\* replace_static_constructor_with_resolver; err is "ValueError" when
\* "static {" or the "}" after it is not found
replace_static_constructor_with_resolver(s) ==
    LET startidx == Find(s, staticBrace, 1)
        stopidx == Find(s, <<"}">>, startidx + Len(staticBrace))
    IN  IF startidx = 0 \/ stopidx = 0 THEN [err |-> "ValueError", value |-> s]
        ELSE [err |-> "none",
              value |-> SubSeq(s, 1, startidx - 1) \o ResourceBundle
                        \o Tail_(s, stopidx + 1)]

\* add_import_to_string; when existing_import is not found the except branch
\* reads the name filepath, which the function does not have: NameError
add_import_to_string(s, existing_import) ==
    LET import_idx == Find(s, existing_import, 1)
    IN  IF import_idx = 0 THEN [err |-> "NameError", value |-> s]
        ELSE [err |-> "none",
              value |-> SubSeq(s, 1, import_idx - 1) \o importstring
                        \o Tail_(s, import_idx)]

\* add_to_end_of_last_class; rindex raises ValueError when "\n}" is not found
add_to_end_of_last_class(s, block) ==
    LET hits == {i \in 1..(Len(s) - 1) : IsAt(s, <<"\n", "}">>, i)}
    IN  IF hits = {} THEN [err |-> "ValueError", value |-> s]
        ELSE [err |-> "none",
              value |-> SubSeq(s, 1, Max(hits) - 1) \o block \o Tail_(s, Max(hits))]

\* l.strip() == ""
IsBlank(l) == \A i \in 1..Len(l) : IsSpace(l[i])

\* "\n".join(ls)
RECURSIVE JoinNl(_)
JoinNl(ls) ==
    IF ls = <<>> THEN <<>>
    ELSE IF Len(ls) = 1 THEN ls[1]
    ELSE ls[1] \o <<"\n">> \o JoinNl(Tail(ls))

\* the loop of cleanup_empty_lines without its test: every line is kept
KeepsEveryLine(lines, n) == TRUE

\* the test of the loop of cleanup_empty_lines for line n (1-based):
\* prev and prevprev are None before the first and the second line
KeepsLine(lines, n) ==
    LET emptyAt(i) == i >= 1 /\ IsBlank(lines[i])
    IN  /\ ~(emptyAt(n - 2) /\ emptyAt(n - 1) /\ emptyAt(n))
        /\ (n # Len(lines) \/ ~(emptyAt(n - 1) /\ emptyAt(n)))

RECURSIVE KeptLines(_, _)
KeptLines(lines, n) ==
    IF n > Len(lines) THEN <<>>
    ELSE (IF KeepsLine(lines, n) THEN <<lines[n]>> ELSE <<>>)
         \o KeptLines(lines, n + 1)

cleanup_empty_lines(s) == JoinNl(KeptLines(SplitLines(s), 1))

\* rewrite_NLS_Messages_file on a file of content filecontent: the content of
\* the file afterwards, the value returned, the exception that left the call
rewrite_NLS_Messages_file(filecontent, variablelines) ==
    LET removed == remove_lines_from_file(filecontent, variablelines)
        read == removed.written
        resolver == replace_static_constructor_with_resolver(read)
        imported == add_import_to_string(resolver.value, nlsImport)
        appended == add_to_end_of_last_class(imported.value, TEMPLATE_GETSTRING)
        rewritten == StrReplace(cleanup_empty_lines(appended.value), extendsNLS, <<>>)
        changed == removed.changed \/ rewritten # read
    IN  IF resolver.err # "none"
        THEN [file |-> read, returned |-> FALSE, err |-> "none"]
        ELSE IF imported.err # "none"
        THEN [file |-> read, returned |-> FALSE, err |-> imported.err]
        ELSE IF appended.err # "none"
        THEN [file |-> read, returned |-> FALSE, err |-> appended.err]
        ELSE [file |-> IF changed THEN rewritten ELSE read,
              returned |-> changed, err |-> "none"]

-----------------------------------------------------------------------------
(* main: the scan of the module paths, the partition of the source files,   *)
(* the pool of usage-rewrite workers, the holder files afterwards           *)

MaxRoots == 2    \* module paths on the command line
CpuCount == 1    \* multiprocessing.cpu_count()

\* s.strip()
Strip(s) ==
    LET keep == {i \in 1..Len(s) : ~IsSpace(s[i])}
    IN  IF keep = {} THEN <<>> ELSE SubSeq(s, Min(keep), Max(keep))

EndsWith(s, suffix) ==
    Len(s) >= Len(suffix) /\ IsAt(s, suffix, Len(s) - Len(suffix) + 1)

\* re.search of word1.*word2.*...: the words in this order, one after the
\* end of the other (the text searched is one line, so . matches all of it)
RECURSIVE SearchInOrder(_, _, _)
SearchInOrder(s, words, from) ==
    IF words = <<>> THEN TRUE
    ELSE LET i == Find(s, Head(words), from)
         IN  i # 0 /\ SearchInOrder(s, Tail(words), i + Len(Head(words)))

kwClass == <<"c", "l", "a", "s", "s">>
kwExtends == <<"e", "x", "t", "e", "n", "d", "s">>
kwNLS == <<"N", "L", "S">>
kwPublic == <<"p", "u", "b", "l", "i", "c">>
kwStatic == <<"s", "t", "a", "t", "i", "c">>
kwPackage == <<"p", "a", "c", "k", "a", "g", "e", " ">>

\* os.path.abspath of a path that is absolute: a trailing / is dropped
abspath(p) ==
    IF Len(p) > 1 /\ p[Len(p)] = "/" THEN SubSeq(p, 1, Len(p) - 1) ELSE p

\* the file at path lies under the directory module_path
Under(path, module_path) == IsAt(path, module_path \o <<"/">>, 1)

\* ag 'class.*extends.*NLS' -G '.*java$' module_path -l; listing is the
\* order in which the file system yields its files, fs their contents
get_paths_to_all_NLS_classes(fs, listing, module_path) ==
    LET hit(p) ==
            /\ Under(p, module_path)
            /\ EndsWith(p, <<"j", "a", "v", "a">>)
            /\ \E i \in 1..Len(FileLines(fs[p])) :
                   SearchInOrder(FileLines(fs[p])[i], <<kwClass, kwExtends, kwNLS>>, 1)
    IN  SelectSeq(listing, hit)

\* find module_path -iname "*.java", without the excluded paths
all_java_files_in(listing, module_path, exclude_paths) ==
    LET hit(p) ==
            /\ Under(p, module_path)
            /\ EndsWith(p, dotJava)
            /\ p \notin exclude_paths
    IN  SelectSeq(listing, hit)

NLS_variable_lines(filecontent) ==
    LET hit(i) ==
            /\ SearchInOrder(i, <<kwPublic, kwStatic, kwString>>, 1)
            /\ ~Contains(i, <<"(">>)
    IN  SelectSeq(FileLines(filecontent), hit)

\* NLS_package; err is "ValueError" when no line starts with "package "
NLS_package(filecontent) ==
    LET lines == FileLines(filecontent)
        hits == {i \in 1..Len(lines) : IsAt(lines[i], kwPackage, 1)}
    IN  IF hits = {} THEN [err |-> "ValueError", value |-> <<>>]
        ELSE [err |-> "none",
              value |-> Strip(StrReplace(Tail_(lines[Min(hits)], Len(kwPackage) + 1),
                                         <<";">>, <<>>))]

\* the elements of a sequence as a set
Range(ps) == {ps[i] : i \in 1..Len(ps)}

\* lines 490-492 and 501-503: the paths found under every module path, one
\* module path after the other; found maps a module path to its paths
RECURSIVE ExtendOver(_, _)
ExtendOver(module_paths, found) ==
    IF module_paths = <<>> THEN <<>>
    ELSE found[Head(module_paths)] \o ExtendOver(Tail(module_paths), found)

\* lines 504-505
usecpus == 2 * CpuCount
listcount == 3 * usecpus

\* lines 507-509: sublists[n % listcount].append(i) for the n-th file
Sublists(alljavafiles) ==
    [k \in 1..listcount |->
        LET ns == {n \in 1..Len(alljavafiles) : (n - 1) % listcount = k - 1}
            RECURSIVE Pick(_)
            Pick(n) == IF n > Len(alljavafiles) THEN <<>>
                       ELSE (IF n \in ns THEN <<alljavafiles[n]>> ELSE <<>>)
                            \o Pick(n + 1)
        IN  Pick(1)]

\* replace_patterns_in_file that writes the file whatever the result is
replace_patterns_in_file_always_writing(read, rules) ==
    LET newcontent == replace_NLS_usage(read, rules)
    IN  [newcontent |-> newcontent, written |-> TRUE, returned |-> newcontent # read]

\* replace_patterns_in_file from the content read: what replace_NLS_usage
\* made of it, whether the file is written, the value returned
replace_patterns_in_file(read, rules) ==
    LET newcontent == replace_NLS_usage(read, rules)
    IN  [newcontent |-> newcontent, written |-> newcontent # read, returned |-> newcontent # read]

\* fut.result() that does not wait for the call to finish
FutureDoneOrNot(fut) == TRUE

\* the future's call has finished: the pool's shutdown on leaving the with
\* block and fut.result() both wait for it
FutureDone(fut) == fut.state = "done"

\* the project on disk: one holder class, a source file that uses it
\* through a static star import, a source file in a subdirectory
holderPath == <<"/", "r", "/", "A", ".", "j", "a", "v", "a">>
usagePath == <<"/", "r", "/", "X", ".", "j", "a", "v", "a">>
subdirPath == <<"/", "r", "/", "s", "/", "Y", ".", "j", "a", "v", "a">>
holderText ==
    <<"p", "a", "c", "k", "a", "g", "e", " ", "p", ";", "\n", "i", "m",
      "p", "o", "r", "t", " ", "o", "r", "g", ".", "e", "c", "l", "i", "p",
      "s", "e", ".", "o", "s", "g", "i", ".", "u", "t", "i", "l", ".", "N",
      "L", "S", ";", "\n", "c", "l", "a", "s", "s", " ", "A", " ", "e",
      "x", "t", "e", "n", "d", "s", " ", "N", "L", "S", " ", "{", "\n",
      " ", " ", "p", "u", "b", "l", "i", "c", " ", "s", "t", "a", "t", "i",
      "c", " ", "S", "t", "r", "i", "n", "g", " ", "F", "_", "a", ";",
      "\n", " ", " ", "s", "t", "a", "t", "i", "c", " ", "{", "\n", " ",
      " ", "}", "\n", "}", "\n">>
\* the holder file without its package line
holderTextNoPackage ==
    <<"i", "m", "p", "o", "r", "t", " ", "o", "r", "g", ".", "e", "c", "l",
      "i", "p", "s", "e", ".", "o", "s", "g", "i", ".", "u", "t", "i", "l",
      ".", "N", "L", "S", ";", "\n", "c", "l", "a", "s", "s", " ", "A",
      " ", "e", "x", "t", "e", "n", "d", "s", " ", "N", "L", "S", " ", "{",
      "\n", " ", " ", "p", "u", "b", "l", "i", "c", " ", "s", "t", "a",
      "t", "i", "c", " ", "S", "t", "r", "i", "n", "g", " ", "F", "_", "a",
      ";", "\n", " ", " ", "s", "t", "a", "t", "i", "c", " ", "{", "\n",
      " ", " ", "}", "\n", "}", "\n">>
\* the holder file without a static block
holderTextNoStaticBlock ==
    <<"p", "a", "c", "k", "a", "g", "e", " ", "p", ";", "\n", "i", "m",
      "p", "o", "r", "t", " ", "o", "r", "g", ".", "e", "c", "l", "i", "p",
      "s", "e", ".", "o", "s", "g", "i", ".", "u", "t", "i", "l", ".", "N",
      "L", "S", ";", "\n", "c", "l", "a", "s", "s", " ", "A", " ", "e",
      "x", "t", "e", "n", "d", "s", " ", "N", "L", "S", " ", "{", "\n",
      " ", " ", "p", "u", "b", "l", "i", "c", " ", "s", "t", "a", "t", "i",
      "c", " ", "S", "t", "r", "i", "n", "g", " ", "F", "_", "a", ";",
      "\n", "}", "\n">>
\* the holder file with a captured line that has no token String
holderTextNoStringToken ==
    <<"p", "a", "c", "k", "a", "g", "e", " ", "p", ";", "\n", "i", "m",
      "p", "o", "r", "t", " ", "o", "r", "g", ".", "e", "c", "l", "i", "p",
      "s", "e", ".", "o", "s", "g", "i", ".", "u", "t", "i", "l", ".", "N",
      "L", "S", ";", "\n", "c", "l", "a", "s", "s", " ", "A", " ", "e",
      "x", "t", "e", "n", "d", "s", " ", "N", "L", "S", " ", "{", "\n",
      " ", " ", "p", "u", "b", "l", "i", "c", " ", "s", "t", "a", "t", "i",
      "c", " ", "S", "t", "r", "i", "n", "g", "B", "u", "i", "l", "d", "e",
      "r", " ", "b", ";", "\n", " ", " ", "s", "t", "a", "t", "i", "c",
      " ", "{", "\n", " ", " ", "}", "\n", "}", "\n">>
\* the holder file that imports NLS through the package
holderTextWildcardImport ==
    <<"p", "a", "c", "k", "a", "g", "e", " ", "p", ";", "\n", "i", "m",
      "p", "o", "r", "t", " ", "o", "r", "g", ".", "e", "c", "l", "i", "p",
      "s", "e", ".", "o", "s", "g", "i", ".", "u", "t", "i", "l", ".", "*",
      ";", "\n", "c", "l", "a", "s", "s", " ", "A", " ", "e", "x", "t",
      "e", "n", "d", "s", " ", "N", "L", "S", " ", "{", "\n", " ", " ",
      "p", "u", "b", "l", "i", "c", " ", "s", "t", "a", "t", "i", "c", " ",
      "S", "t", "r", "i", "n", "g", " ", "F", "_", "a", ";", "\n", " ",
      " ", "s", "t", "a", "t", "i", "c", " ", "{", "\n", " ", " ", "}",
      "\n", "}", "\n">>
HolderTexts ==
    {holderText, holderTextNoPackage, holderTextNoStaticBlock, holderTextNoStringToken,
     holderTextWildcardImport}
usageText ==
    <<"i", "m", "p", "o", "r", "t", " ", "s", "t", "a", "t", "i", "c", " ",
      "p", ".", "A", ".", "*", ";", "\n", "x", " ", "=", " ", "F", "_",
      "a", ";", "\n">>
\* the file of the subdirectory names the variable bare, without an import,
\* or qualified by the class
SubdirTexts ==
    {<<"y", " ", "=", " ", "F", "_", "a", ";", "\n">>,
     <<"y", " ", "=", " ", "A", ".", "F", "_", "a", ";", "\n">>}

\* the module paths of the command line: a directory, and its subdirectory
\* written with a trailing /
Roots == {<<"/", "r">>, <<"/", "r", "/", "s", "/">>}
ModulePathLists == UNION {[1..n -> Roots] : n \in 1..MaxRoots}

AllPaths == {holderPath, usagePath, subdirPath}

\* the orders in which the file system can yield the files
Listings ==
    {l \in [1..Cardinality(AllPaths) -> AllPaths] : Range(l) = AllPaths}

\* the rewrite engine, the substitution and the builder are not running on
\* their own while main runs
OthersIdle ==
    /\ RewriteIdle
    /\ rrvs = RrvsIdle
    /\ build = BuildIdle
    /\ clean = CleanIdle
    /\ jinto = JintoIdle

\* a worker of the pool, or main itself in single-process mode, that runs
\* replace_patterns_in_filelist: the sublist it works on (0: none), the
\* position in it, where it stands in replace_patterns_in_file, the content
\* it read, the list it has built
NoCall == [task |-> 0, pos |-> 0, at |-> idle, read |-> <<>>, result |-> <<>>]
StartedCall(k) == [task |-> k, pos |-> 1, at |-> "open", read |-> <<>>, result |-> <<>>]

InitMain ==
    /\ OthersIdle
    /\ \E roots \in ModulePathLists, single \in BOOLEAN,
          listing \in Listings, subdirText \in SubdirTexts, holder \in HolderTexts :
          LET disk == [p \in AllPaths |->
                          IF p = holderPath THEN holder
                          ELSE IF p = usagePath THEN usageText
                          ELSE subdirText]
          IN  mainst = [pc |-> "scan",
                        args |-> [module_paths |-> roots, singleprocess |-> single],
                        listing |-> listing,
                        fs0 |-> disk,
                        fs |-> disk,
                        NLS_files |-> <<>>,
                        filesandlines |-> <<>>,
                        patterns |-> <<>>,
                        alljavafiles |-> <<>>,
                        sublists |-> <<>>,
                        futures |-> <<>>,
                        workers |-> [w \in 1..usecpus |-> NoCall],
                        own |-> NoCall,
                        n |-> 0,
                        changedusage |-> <<>>,
                        changedmessage |-> <<>>,
                        calls |-> {},
                        holdercalls |-> <<>>,
                        raised |-> "none"]

MainUnchanged == UNCHANGED <<input, patterns, content, replaced, pc, idx, run,
                             result1, substLog, rrvs, build,
                             clean, jinto>>

\* the exception of line_to_variable that leaves build_replacement_patterns:
\* that of the first line, in the order of the loops, it is raised on
\* ("none" when the list of rules is returned)
RECURSIVE FirstError(_, _)
FirstError(paths, filesandlines) ==
    LET lines == filesandlines[Head(paths)]
        bad == {i \in 1..Len(lines) : line_to_variable(lines[i]).err # "none"}
    IN  IF paths = <<>> THEN "none"
        ELSE IF bad # {} THEN line_to_variable(lines[Min(bad)]).err
        ELSE FirstError(Tail(paths), filesandlines)

BuildRaises(filesandlines) == FirstError(SortedPaths(DOMAIN filesandlines), filesandlines)

\* main, lines 489-510: the scan, the rules, the partition, the choice of
\* the mode; the ValueError of NLS_package leaves main
MainScan ==
    /\ mainst.pc = "scan"
    /\ LET module_paths == [i \in 1..Len(mainst.args.module_paths) |->
                               abspath(mainst.args.module_paths[i])]
           NLS_files ==
               ExtendOver(module_paths,
                          [m \in Range(module_paths) |->
                              get_paths_to_all_NLS_classes(mainst.fs, mainst.listing, m)])
           filesandlines == [i \in Range(NLS_files) |-> NLS_variable_lines(mainst.fs[i])]
           packages == [i \in Range(NLS_files) |-> NLS_package(mainst.fs[i])]
           filesandpackages == [i \in Range(NLS_files) |-> packages[i].value]
           alljavafiles ==
               ExtendOver(module_paths,
                          [m \in Range(module_paths) |->
                              all_java_files_in(mainst.listing, m, Range(NLS_files))])
       IN  IF \E i \in Range(NLS_files) : packages[i].err # "none"
           THEN mainst' = [mainst EXCEPT !.pc = "aborted", !.NLS_files = NLS_files,
                                         !.filesandlines = filesandlines,
                                         !.raised = "ValueError"]
           ELSE IF BuildRaises(filesandlines) # "none"
           THEN mainst' = [mainst EXCEPT !.pc = "aborted", !.NLS_files = NLS_files,
                                         !.filesandlines = filesandlines,
                                         !.raised = BuildRaises(filesandlines)]
           ELSE mainst' = [mainst EXCEPT
                    !.pc = IF mainst.args.singleprocess THEN "single" ELSE "submit",
                    !.NLS_files = NLS_files,
                    !.filesandlines = filesandlines,
                    !.patterns = build_replacement_patterns(filesandlines, filesandpackages),
                    !.alljavafiles = alljavafiles,
                    !.sublists = Sublists(alljavafiles)]
    /\ MainUnchanged

\* replace_patterns_in_file, lines 309-310: the file is read
ReadStep(call) ==
    [call EXCEPT !.at = "rewrite",
                 !.read = mainst.fs[mainst.sublists[call.task][call.pos]]]

\* replace_patterns_in_file, lines 312-317, and the next element of the list
\* comprehension of replace_patterns_in_filelist
RewriteStep(call) ==
    [call EXCEPT !.at = "open", !.pos = @ + 1, !.read = <<>>,
                 !.result = Append(@, replace_patterns_in_file(call.read,
                                                               mainst.patterns).returned)]

\* the file system and the record of the calls after lines 312-317
AfterRewrite(call) ==
    LET path == mainst.sublists[call.task][call.pos]
        r == replace_patterns_in_file(call.read, mainst.patterns)
    IN  [fs |-> IF r.written THEN [mainst.fs EXCEPT ![path] = r.newcontent]
                ELSE mainst.fs,
         calls |-> mainst.calls \cup
                   {[path |-> path, read |-> call.read, result |-> r.newcontent,
                     wrote |-> r.written, returned |-> r.returned]}]

Reading(call) ==
    call.at = "open" /\ call.task # 0 /\ call.pos <= Len(mainst.sublists[call.task])
Rewriting(call) == call.at = "rewrite"
ListDone(call) ==
    call.at = "open" /\ call.task # 0 /\ call.pos > Len(mainst.sublists[call.task])

\* process_multiprocessing, lines 473-474: one sublist is submitted
Submit ==
    /\ mainst.pc = "submit"
    /\ mainst.n < listcount
    /\ mainst' = [mainst EXCEPT
                     !.n = @ + 1,
                     !.futures = Append(@, [state |-> "pending", result |-> <<>>])]
    /\ MainUnchanged

\* a worker process takes the oldest call that waits in the pool's queue
WorkerTake(w) ==
    /\ mainst.pc \notin {idle, "scan"}
    /\ mainst.workers[w].task = 0
    /\ \E k \in 1..Len(mainst.futures) :
          /\ mainst.futures[k].state = "pending"
          /\ \A j \in 1..(k - 1) : mainst.futures[j].state # "pending"
          /\ mainst' = [mainst EXCEPT !.futures[k].state = "running",
                                      !.workers[w] = StartedCall(k)]
    /\ MainUnchanged

WorkerRead(w) ==
    /\ mainst.pc # idle
    /\ Reading(mainst.workers[w])
    /\ mainst' = [mainst EXCEPT !.workers[w] = ReadStep(@)]
    /\ MainUnchanged

WorkerRewrite(w) ==
    /\ mainst.pc # idle
    /\ Rewriting(mainst.workers[w])
    /\ mainst' = [mainst EXCEPT !.workers[w] = RewriteStep(@),
                                !.fs = AfterRewrite(mainst.workers[w]).fs,
                                !.calls = AfterRewrite(mainst.workers[w]).calls]
    /\ MainUnchanged

\* the call of replace_patterns_in_filelist returns: its future is done
WorkerFinish(w) ==
    /\ mainst.pc # idle
    /\ ListDone(mainst.workers[w])
    /\ mainst' = [mainst EXCEPT
                     !.futures[mainst.workers[w].task] =
                         [state |-> "done", result |-> mainst.workers[w].result],
                     !.workers[w] = NoCall]
    /\ MainUnchanged

\* process_multiprocessing, line 471: the with block is left when every
\* sublist is submitted, and the pool's shutdown waits for every future
PoolExit ==
    /\ mainst.pc = "submit"
    /\ mainst.n = listcount
    /\ \A k \in 1..Len(mainst.futures) : FutureDone(mainst.futures[k])
    /\ mainst' = [mainst EXCEPT !.pc = "collect", !.n = 0]
    /\ MainUnchanged

\* process_multiprocessing, lines 476-478: the result of the next future
Collect ==
    /\ mainst.pc = "collect"
    /\ mainst.n < Len(mainst.futures)
    /\ FutureDone(mainst.futures[mainst.n + 1])
    /\ mainst' = [mainst EXCEPT
                     !.n = IF mainst.n + 1 = Len(mainst.futures) THEN 0 ELSE @ + 1,
                     !.pc = IF mainst.n + 1 = Len(mainst.futures) THEN "holders" ELSE @,
                     !.changedusage = @ \o mainst.futures[mainst.n + 1].result]
    /\ MainUnchanged

\* process_single_process, lines 482-483: main calls
\* replace_patterns_in_filelist on the next sublist
SingleStart ==
    /\ mainst.pc = "single"
    /\ mainst.own.task = 0
    /\ mainst.n < listcount
    /\ mainst' = [mainst EXCEPT !.n = @ + 1, !.own = StartedCall(mainst.n + 1)]
    /\ MainUnchanged

SingleRead ==
    /\ mainst.pc = "single"
    /\ Reading(mainst.own)
    /\ mainst' = [mainst EXCEPT !.own = ReadStep(@)]
    /\ MainUnchanged

SingleRewrite ==
    /\ mainst.pc = "single"
    /\ Rewriting(mainst.own)
    /\ mainst' = [mainst EXCEPT !.own = RewriteStep(@),
                                !.fs = AfterRewrite(mainst.own).fs,
                                !.calls = AfterRewrite(mainst.own).calls]
    /\ MainUnchanged

\* line 483: changedusage.extend of what the call returned; after the last
\* sublist process_single_process returns
SingleExtend ==
    /\ mainst.pc = "single"
    /\ ListDone(mainst.own)
    /\ mainst' = [mainst EXCEPT
                     !.own = NoCall,
                     !.changedusage = @ \o mainst.own.result,
                     !.n = IF mainst.n = listcount THEN 0 ELSE @,
                     !.pc = IF mainst.n = listcount THEN "holders" ELSE @]
    /\ MainUnchanged

\* main, lines 514-515: rewrite_NLS_Messages_file on the next NLS file; an
\* exception of the call leaves main
HolderStep ==
    /\ mainst.pc = "holders"
    /\ mainst.n < Len(mainst.NLS_files)
    /\ LET i == mainst.NLS_files[mainst.n + 1]
           r == rewrite_NLS_Messages_file(mainst.fs[i], mainst.filesandlines[i])
       IN  mainst' = [mainst EXCEPT
                         !.n = @ + 1,
                         !.fs[i] = r.file,
                         !.pc = IF r.err # "none" THEN "aborted" ELSE @,
                         !.raised = r.err,
                         !.holdercalls = Append(@, [path |-> i, before |-> mainst.fs[i],
                                                    after |-> r.file,
                                                    returned |-> r.returned,
                                                    raised |-> r.err]),
                         !.changedmessage = IF r.err # "none" THEN @
                                            ELSE Append(@, r.returned)]
    /\ MainUnchanged

\* main, line 516
MainReturn ==
    /\ mainst.pc = "holders"
    /\ mainst.n = Len(mainst.NLS_files)
    /\ mainst' = [mainst EXCEPT !.pc = "done"]
    /\ MainUnchanged

NextMain ==
    \/ MainScan
    \/ Submit
    \/ \E w \in 1..usecpus : WorkerTake(w)
    \/ \E w \in 1..usecpus : WorkerRead(w)
    \/ \E w \in 1..usecpus : WorkerRewrite(w)
    \/ \E w \in 1..usecpus : WorkerFinish(w)
    \/ PoolExit
    \/ Collect
    \/ SingleStart
    \/ SingleRead
    \/ SingleRewrite
    \/ SingleExtend
    \/ HolderStep
    \/ MainReturn

SpecMain == InitMain /\ [][NextMain]_vars

-----------------------------------------------------------------------------
(* Properties of main                                                       *)

\* the content holds the static import of a variable, the static star
\* import or the fromPattern of one of the rules
HasLiteral(c, rules) ==
    \E i \in 1..Len(rules) :
        \/ Contains(c, StaticImportVariable(rules[i][5], rules[i][1]))
        \/ Contains(c, StaticImportStar(rules[i][5], rules[i][3]))
        \/ Contains(c, rules[i][1])

\* C8: every call of replace_patterns_in_file writes the file if and only if
\* the result of replace_NLS_usage differs from the content it read, and
\* returns True exactly then; a file handed to replace_patterns_in_file whose
\* content holds no static import literal and no fromPattern of any rule is
\* never written, and its content stays what it was before the run.
C8_WritesOnlyOnChange ==
    /\ \A c \in mainst.calls :
          /\ c.wrote <=> (c.result # c.read)
          /\ c.returned <=> c.wrote
    /\ \A f \in Range(mainst.alljavafiles) :
          ~HasLiteral(mainst.fs0[f], mainst.patterns)
              => /\ mainst.fs[f] = mainst.fs0[f]
                 /\ \A c \in mainst.calls : c.path = f => ~c.wrote

\* the run is over, one file was rewritten and written, another one without
\* any literal was read and left alone
C8_Witness ==
    /\ mainst.pc = "done"
    /\ mainst.patterns # <<>>
    /\ \E c \in mainst.calls : c.wrote /\ mainst.fs[c.path] = c.result
    /\ \E c \in mainst.calls :
          /\ ~HasLiteral(mainst.fs0[c.path], mainst.patterns)
          /\ ~c.wrote /\ ~c.returned
          /\ mainst.fs[c.path] = mainst.fs0[c.path]

\* the places of the file f in the sublists
Places(f) ==
    {p \in UNION {{<<k, i>> : i \in 1..Len(mainst.sublists[k])}
                  : k \in 1..Len(mainst.sublists)} :
        mainst.sublists[p[1]][p[2]] = f}

\* worker w stands inside replace_patterns_in_file on the file f
WorksOn(w, f) ==
    /\ mainst.workers[w].task # 0
    /\ mainst.workers[w].pos <= Len(mainst.sublists[mainst.workers[w].task])
    /\ mainst.sublists[mainst.workers[w].task][mainst.workers[w].pos] = f

\* C9: for every list of module paths, the sublists are pairwise disjoint,
\* every collected file stands in exactly one sublist exactly once, and no
\* file is in the hands of two workers of the pool.
C9_NoTwoWorkersTouchSameFile ==
    /\ \A f \in Range(mainst.alljavafiles) : Cardinality(Places(f)) = 1
    /\ \A f \in Range(mainst.alljavafiles) :
          \A w1, w2 \in 1..usecpus : WorksOn(w1, f) /\ WorksOn(w2, f) => w1 = w2

\* rewrite_NLS_Messages_file has been called, or is about to be
HolderPhaseStarted ==
    \/ mainst.pc \in {"holders", "done"}
    \/ mainst.pc = "aborted" /\ mainst.n > 0

\* no worker and not main is inside replace_patterns_in_filelist, every
\* future is done, and every file of every sublist has gone through
\* replace_patterns_in_file
UsageRewritesFinished ==
    /\ \A w \in 1..usecpus : mainst.workers[w] = NoCall
    /\ mainst.own = NoCall
    /\ \A k \in 1..Len(mainst.futures) :
          /\ mainst.futures[k].state = "done"
          /\ Len(mainst.futures[k].result) = Len(mainst.sublists[k])
    /\ Len(mainst.changedusage) = Len(mainst.alljavafiles)

\* C10: in the multi-process and in the single-process mode, the first call
\* of rewrite_NLS_Messages_file comes only after every usage-rewrite worker
\* has finished all files of its sublist, and no usage rewrite runs while the
\* holder files are transformed.
C10_PhaseOrdering == HolderPhaseStarted => UsageRewritesFinished

\* multi-process mode: the pool has rewritten a source file, and the holder
\* file has been transformed after it
C10_Witness ==
    /\ ~mainst.args.singleprocess
    /\ mainst.pc = "holders"
    /\ mainst.n >= 1
    /\ mainst.fs[holderPath] # mainst.fs0[holderPath]
    /\ \E c \in mainst.calls : c.wrote
    /\ Len(mainst.alljavafiles) >= 2

\* single-process mode: main has rewritten a source file itself, and the
\* holder file has been transformed after it
C10_WitnessSingleProcess ==
    /\ mainst.args.singleprocess
    /\ mainst.pc = "holders"
    /\ mainst.n >= 1
    /\ mainst.fs[holderPath] # mainst.fs0[holderPath]
    /\ \E c \in mainst.calls : c.wrote

\* the module paths of the run, the holder files under them and the other
\* source files under them, as the file system had them before the run
RunRoots == {abspath(mainst.args.module_paths[i]) : i \in 1..Len(mainst.args.module_paths)}
RunHolders ==
    UNION {Range(get_paths_to_all_NLS_classes(mainst.fs0, mainst.listing, m)) : m \in RunRoots}
RunSources ==
    UNION {Range(all_java_files_in(mainst.listing, m, RunHolders)) : m \in RunRoots}

\* main has returned, or an exception has left it
Stopped == mainst.pc \in {"done", "aborted"}

\* C11: a holder file that lacks a required element (its package line, its
\* static block, the token String in a captured line) is not fatal to the
\* batch: when main has stopped, every other file of the run has gone
\* through replace_patterns_in_file.
C11_MissingElementNotFatal ==
    Stopped => \A f \in RunSources : \E c \in mainst.calls : c.path = f

\* the content has exactly one static block: one "static {", and a "}"
\* after it
OneStaticBlock(c) ==
    /\ CountFrom(c, staticBrace, 1) = 1
    /\ Find(c, <<"}">>, Find(c, staticBrace, 1) + Len(staticBrace)) # 0

\* the k-th call of rewrite_NLS_Messages_file turned its one static block
\* into one resolver field
YieldsResolver(k) ==
    LET h == mainst.holdercalls[k]
    IN  /\ h.raised = "none"
        /\ CountFrom(h.after, ResourceBundle, 1) = 1
        /\ ~Contains(h.after, staticBrace)

\* the call after the k-th is a call on the k-th call's output
RunAgain(k) ==
    /\ k + 1 <= Len(mainst.holdercalls)
    /\ mainst.holdercalls[k + 1].path = mainst.holdercalls[k].path
    /\ mainst.holdercalls[k + 1].before = mainst.holdercalls[k].after

\* the call after the k-th fails gracefully: no exception, False returned,
\* the file as the k-th call left it
FailsGracefully(k) ==
    LET h == mainst.holdercalls[k + 1]
    IN  h.raised = "none" /\ ~h.returned /\ h.after = h.before

\* C12: a call of rewrite_NLS_Messages_file on a holder file with exactly one
\* static block leaves the file with exactly one resolver-field declaration
\* in place of the block and without a static block; a second call on that
\* output returns False and leaves the content as the first call wrote it.
C12_HolderRoundTrip ==
    \A k \in 1..Len(mainst.holdercalls) :
        OneStaticBlock(mainst.holdercalls[k].before)
            => /\ YieldsResolver(k)
               /\ RunAgain(k) => FailsGracefully(k)

\* the round trip of the holder files that name the import
\* org.eclipse.osgi.util.NLS literally
C12_RoundTripWithLiteralImport ==
    \A k \in 1..Len(mainst.holdercalls) :
        OneStaticBlock(mainst.holdercalls[k].before)
        /\ Contains(mainst.holdercalls[k].before, nlsImport)
            => /\ YieldsResolver(k)
               /\ RunAgain(k) => FailsGracefully(k)

\* a holder file with one static block was transformed and transformed again
C12_RoundTripReached ==
    \E k \in 1..Len(mainst.holdercalls) :
        /\ OneStaticBlock(mainst.holdercalls[k].before)
        /\ YieldsResolver(k)
        /\ RunAgain(k)
        /\ FailsGracefully(k)

\* C13: rewrite_NLS_Messages_file returns True exactly when the content of
\* the file after the call differs from the content before the call; when
\* there is no static block the file keeps the content it had and False is
\* returned.
C13_ChangedOnlyWhenReported ==
    \A k \in 1..Len(mainst.holdercalls) :
        LET h == mainst.holdercalls[k]
        IN  h.raised = "none"
            => /\ h.returned <=> (h.after # h.before)
               /\ ~Contains(h.before, staticBrace)
                    => (h.after = h.before /\ ~h.returned)

-----------------------------------------------------------------------------
(* cleanup_empty_lines called on its own, and again on what it returned     *)

MaxCleanLines == 6    \* elements of content.split("\n")

\* a line is empty, holds only white space, or holds text
CleanLineTexts == {<<>>, <<" ">>, <<"a">>}

CleanTexts ==
    {JoinNl(ls) : ls \in UNION {[1..n -> CleanLineTexts] : n \in 1..MaxCleanLines}}

InitClean ==
    /\ RewriteIdle
    /\ rrvs = RrvsIdle
    /\ build = BuildIdle
    /\ mainst = MainIdle
    /\ jinto = JintoIdle
    /\ \E c \in CleanTexts :
          clean = [content |-> c, result |-> <<>>, again |-> <<>>, pc |-> "call"]

\* cleanup_empty_lines(content)
CleanCall ==
    /\ clean.pc = "call"
    /\ clean' = [clean EXCEPT !.result = cleanup_empty_lines(clean.content),
                              !.pc = "returned"]
    /\ UNCHANGED <<rewriteVars, rrvs, build, mainst, jinto>>

\* cleanup_empty_lines on the value the first call returned
CleanAgain ==
    /\ clean.pc = "returned"
    /\ clean' = [clean EXCEPT !.again = cleanup_empty_lines(clean.result),
                              !.pc = "done"]
    /\ UNCHANGED <<rewriteVars, rrvs, build, mainst, jinto>>

NextClean == CleanCall \/ CleanAgain

SpecClean == InitClean /\ [][NextClean]_vars

\* the indices of the lines of ls that are not blank, in order
NonBlankAt(ls) ==
    LET holdsText(i) == ~IsBlank(ls[i])
    IN  SelectSeq([i \in 1..Len(ls) |-> i], holdsText)

\* the lines of ls that are not blank, in order
NonBlankLines(ls) == [j \in 1..Len(NonBlankAt(ls)) |-> ls[NonBlankAt(ls)[j]]]

\* the blank lines between the j-th line that is not blank and the next one
Gap(ls, j) == SubSeq(ls, NonBlankAt(ls)[j] + 1, NonBlankAt(ls)[j + 1] - 1)

\* C14: what cleanup_empty_lines returns has no three consecutive blank
\* lines; its lines that are not blank are those of the content, in order;
\* between two of them a run of at most two blank lines is kept as it is and
\* a run of three or more becomes a run of exactly two.
C14_BlankLinesCollapsed ==
    clean.pc \in {"returned", "done"} =>
        LET old == SplitLines(clean.content)
            new == SplitLines(clean.result)
        IN  /\ \A i \in 1..(Len(new) - 2) :
                  ~(IsBlank(new[i]) /\ IsBlank(new[i + 1]) /\ IsBlank(new[i + 2]))
            /\ NonBlankLines(new) = NonBlankLines(old)
            /\ \A j \in 1..(Len(NonBlankAt(old)) - 1) :
                  IF Len(Gap(old, j)) <= 2
                  THEN Gap(new, j) = Gap(old, j)
                  ELSE Len(Gap(new, j)) = 2

\* a run of four blank lines between two lines of text has become a run of
\* two
C14_Witness ==
    /\ clean.pc = "returned"
    /\ Len(NonBlankAt(SplitLines(clean.content))) = 2
    /\ Len(Gap(SplitLines(clean.content), 1)) = 4
    /\ Len(Gap(SplitLines(clean.result), 1)) = 2

\* C18: cleanup_empty_lines on what cleanup_empty_lines returned returns it
\* unchanged, also for content that ends in blank lines.
C18_CleanupIdempotent == clean.pc = "done" => clean.again = clean.result

-----------------------------------------------------------------------------
(* eclipse_jinto_setup.py                                                   *)

\* "private static final String BUNDLE_NAME"
BUNDLE_DECLARATION ==
    <<"p", "r", "i", "v", "a", "t", "e", " ", "s", "t", "a", "t", "i", "c",
      " ", "f", "i", "n", "a", "l", " ", "S", "t", "r", "i", "n", "g", " ",
      "B", "U", "N", "D", "L", "E", "_", "N", "A", "M", "E">>

\* "public class "
CLASS_DECLARATION == <<"p", "u", "b", "l", "i", "c", " ", "c", "l", "a", "s", "s", " ">>

\* TEMPLATE.format(resource_bundle_reference=...): the text before the
\* field, the value, the text after the field
TEMPLATE(resource_bundle_reference) ==
    <<"d", "e", ".", "g", "u", "h", "s", "o", "f", "t", ".", "j", "i", "n",
      "t", "o", ".", "c", "o", "r", "e", ".", "a", "c", "c", "e", "s", "s",
      "o", "r", "C", "o", "n", "f", "i", "g", "u", "r", "a", "t", "i", "o",
      "n", "=", "<", "?", "x", "m", "l", " ", "v", "e", "r", "s", "i", "o",
      "n", "\\", "=", "\"", "1", ".", "0", "\"", " ", "e", "n", "c", "o",
      "d", "i", "n", "g", "\\", "=", "\"", "U", "T", "F", "-", "8", "\"",
      "?", ">", "\\", "n", "<", "r", "o", "o", "t", ">", "\\", "n">>
    \o resource_bundle_reference \o
    <<"\\", "n", "<", "/", "r", "o", "o", "t", ">", "\n", "e", "c", "l",
      "i", "p", "s", "e", ".", "p", "r", "e", "f", "e", "r", "e", "n", "c",
      "e", "s", ".", "v", "e", "r", "s", "i", "o", "n", "=", "1", "\n">>

\* TEMPLATE_RESOURCE_BUNDLE_REFERENCE_TAG.format(accessor=..., properties=...)
TEMPLATE_RESOURCE_BUNDLE_REFERENCE_TAG(accessor, properties) ==
    <<"<", "r", "e", "s", "o", "u", "r", "c", "e", "B", "u", "n", "d", "l",
      "e", "R", "e", "f", "e", "r", "e", "n", "c", "e", " ", "r", "e", "s",
      "o", "u", "r", "c", "e", "B", "u", "n", "d", "l", "e", "N", "a", "m",
      "e", "\\", "=", "\"">>
    \o properties \o
    <<"\"", ">", "\\", "n", "<", "a", "c", "c", "e", "s", "s", "o", "r",
      " ", "t", "y", "p", "e", "N", "a", "m", "e", "\\", "=", "\"">>
    \o accessor \o
    <<"\"", ">", "\\", "n", "<", "m", "e", "t", "h", "o", "d", "R", "e",
      "f", "e", "r", "e", "n", "c", "e", " ", "m", "e", "t", "h", "o", "d",
      "N", "a", "m", "e", "\\", "=", "\"", "g", "e", "t", "S", "t", "r",
      "i", "n", "g", "\"", ">", "\\", "n", "<", "p", "a", "r", "a", "m",
      "e", "t", "e", "r", " ", "i", "n", "d", "e", "x", "\\", "=", "\"",
      "0", "\"", " ", "i", "s", "S", "e", "l", "e", "c", "t", "e", "d",
      "\\", "=", "\"", "t", "r", "u", "e", "\"", " ", "p", "a", "r", "a",
      "m", "e", "t", "e", "r", "N", "a", "m", "e", "\\", "=", "\"", "k",
      "e", "y", "\"", " ", "p", "a", "r", "a", "m", "e", "t", "e", "r",
      "T", "y", "p", "e", "\\", "=", "\"", "j", "a", "v", "a", ".", "l",
      "a", "n", "g", ".", "S", "t", "r", "i", "n", "g", "\"", "/", ">",
      "\\", "n", "<", "/", "m", "e", "t", "h", "o", "d", "R", "e", "f",
      "e", "r", "e", "n", "c", "e", ">", "\\", "n", "<", "/", "a", "c",
      "c", "e", "s", "s", "o", "r", ">", "\\", "n", "<", "/", "r", "e",
      "s", "o", "u", "r", "c", "e", "B", "u", "n", "d", "l", "e", "R", "e",
      "f", "e", "r", "e", "n", "c", "e", ">">>

process_bundle_template(accessor, properties) ==
    TEMPLATE_RESOURCE_BUNDLE_REFERENCE_TAG(accessor, properties)

\* "\\n".join(blocks): the separator is a backslash and the letter n
RECURSIVE JoinBackslashN(_)
JoinBackslashN(blocks) ==
    IF blocks = <<>> THEN <<>>
    ELSE IF Len(blocks) = 1 THEN blocks[1]
    ELSE blocks[1] \o <<"\\", "n">> \o JoinBackslashN(Tail(blocks))

\* generate_settings_data that fills in the block of the first pair only
generate_settings_data_of_first_pair(accessors_and_properties) ==
    TEMPLATE(process_bundle_template(accessors_and_properties[1][1],
                                     accessors_and_properties[1][2]))

\* accessors_and_properties is a sequence of pairs <<accessor, properties>>
generate_settings_data(accessors_and_properties) ==
    TEMPLATE(JoinBackslashN([k \in 1..Len(accessors_and_properties) |->
                process_bundle_template(accessors_and_properties[k][1],
                                        accessors_and_properties[k][2])]))

\* s.replace(c, "") for every string c of the sequence drop, one after the
\* other
RECURSIVE Dropping(_, _)
Dropping(s, drop) ==
    IF drop = <<>> THEN s
    ELSE Dropping(StrReplace(s, Head(drop), <<>>), Tail(drop))

\* extract_accessor_and_properties on the content of the file: each of the
\* three values is taken from the first line that holds it; err is
\* "ValueError" when one of them is in no line
extract_accessor_and_properties(filecontent) ==
    LET lines == FileLines(filecontent)
        kwPackageWord == <<"p", "a", "c", "k", "a", "g", "e">>
        packageAt == {i \in 1..Len(lines) : IsAt(Strip(lines[i]), kwPackageWord, 1)}
        propertiesAt == {i \in 1..Len(lines) : Contains(lines[i], BUNDLE_DECLARATION)}
        classAt == {i \in 1..Len(lines) : Contains(lines[i], CLASS_DECLARATION)}
        package == Strip(Dropping(lines[Min(packageAt)], <<<<";">>, kwPackageWord>>))
        declared == Strip(Dropping(lines[Min(propertiesAt)],
                                   <<BUNDLE_DECLARATION, <<"\"">>, <<"=">>, <<";">>>>))
        properties == IF Contains(declared, <<"/">>)
                      THEN Strip(SubSeq(declared, 1, Find(declared, <<"/">>, 1) - 1))
                      ELSE declared
        classname == Strip(Dropping(lines[Min(classAt)], <<CLASS_DECLARATION, <<"{">>>>))
    IN  IF packageAt = {} \/ propertiesAt = {} \/ classAt = {}
        THEN [err |-> "ValueError", value |-> <<>>]
        ELSE [err |-> "none", value |-> <<package \o <<".">> \o classname, properties>>]

\* ag 'static.*final.*IMessageResolver.*MSG.*=' -G '.*java$' module_path -l;
\* files maps a path to [exists, content], listing is the order in which
\* the file system yields the paths
get_paths_to_all_Messages_classes(files, listing, module_path) ==
    LET words == <<kwStatic, <<"f", "i", "n", "a", "l">>, <<"I", "M", "e", "s", "s", "a", "g", "e", "R", "e", "s", "o", "l", "v",
      "e", "r">>, <<"M", "S", "G">>, <<"=">>>>
        hit(p) ==
            /\ files[p].exists
            /\ Under(p, module_path)
            /\ EndsWith(p, <<"j", "a", "v", "a">>)
            /\ \E i \in 1..Len(FileLines(files[p].content)) :
                   SearchInOrder(FileLines(files[p].content)[i], words, 1)
    IN  SelectSeq(listing, hit)

\* os.path.join(os.path.join(module_path, ".settings"),
\* "de.guhsoft.jinto.core.prefs") for a module path without a trailing /
settings_dirpath(module_path) == module_path \o <<"/", ".", "s", "e", "t", "t", "i", "n", "g", "s">>
settings_filepath(module_path) ==
    settings_dirpath(module_path) \o <<"/", "d", "e", ".", "g", "u", "h", "s", "o", "f", "t", ".", "j", "i",
      "n", "t", "o", ".", "c", "o", "r", "e", ".", "p", "r", "e", "f", "s">>

\* write_jinto_settings_file that writes whether the file exists or not
write_jinto_settings_file_overwriting(files, dirs, module_path, data) ==
    [files |-> [files EXCEPT ![settings_filepath(module_path)] =
                                 [exists |-> TRUE, content |-> data]],
     dirs |-> dirs \cup {settings_dirpath(module_path)},
     returned |-> <<settings_filepath(module_path)>>]

\* write_jinto_settings_file: the files and the directories afterwards, and
\* the value returned: <<>> for None, <<path>> for a path
write_jinto_settings_file(files, dirs, module_path, data) ==
    [files |-> IF files[settings_filepath(module_path)].exists THEN files
               ELSE [files EXCEPT ![settings_filepath(module_path)] =
                                      [exists |-> TRUE, content |-> data]],
     dirs |-> dirs \cup {settings_dirpath(module_path)},
     returned |-> IF files[settings_filepath(module_path)].exists THEN <<>>
                  ELSE <<settings_filepath(module_path)>>]

\* os.path.relpath(path, start) for a path under the directory start
relpath(path, start) == Tail_(path, Len(start) + 2)

MaxProjects == 2    \* module paths on the command line

\* args.parent_directory
parentDirectory == <<"/", "w">>

\* the directories under it: two projects
JintoProjects == {parentDirectory \o <<"/", "m", "1">>, parentDirectory \o <<"/", "m", "2">>}

\* the module paths of the command line: a project, a project written with
\* a trailing /, a path that is no directory
JintoPathLists ==
    UNION {[1..k -> {parentDirectory \o <<"/", "m", "1">>,
                     parentDirectory \o <<"/", "m", "2", "/">>,
                     parentDirectory \o <<"/", "x">>}] : k \in 1..MaxProjects}

\* an accessor class of the package and the name given
AccessorText(package, classname) ==
    kwPackage \o package \o <<";", "\n", "p", "u", "b", "l", "i", "c", " ", "c", "l", "a", "s",
      "s", " ">> \o classname \o
    <<" ", "{", "\n", " ", " ">> \o BUNDLE_DECLARATION \o <<" ", "=", " ", "\"">> \o package \o
    <<".", "m", "e", "s", "s", "a", "g", "e", "s", "\"", ";", " ", "/",
      "/", "$", "N", "O", "N", "-", "N", "L", "S", "-", "1", "$", "\n",
      " ", " ", "p", "r", "i", "v", "a", "t", "e", " ", "s", "t", "a", "t",
      "i", "c", " ", "f", "i", "n", "a", "l", " ", "I", "M", "e", "s", "s",
      "a", "g", "e", "R", "e", "s", "o", "l", "v", "e", "r", " ", "M", "S",
      "G", " ", "=", " ", "n", "e", "w", " ", "R", "e", "s", "o", "u", "r",
      "c", "e", "B", "u", "n", "d", "l", "e", "M", "e", "s", "s", "a", "g",
      "e", "R", "e", "s", "o", "l", "v", "e", "r", "(", "B", "U", "N", "D",
      "L", "E", "_", "N", "A", "M", "E", ")", ";", "\n", "}", "\n">>

\* the files of the projects before the run: in every project the accessor
\* class M is there or not and the settings file is there, written by an
\* earlier run, or not; in the project m1 a second accessor class N is
\* there, there without its package line, or not
JintoDisk(hasM, kindN, hasSettings) ==
    LET textM == AccessorText(<<"q">>, <<"M">>)
        textN == AccessorText(<<"q">>, <<"N">>)
        fileM(m) == m \o <<"/", "M", ".", "j", "a", "v", "a">>
        fileN == parentDirectory \o <<"/", "m", "1", "/", "N", ".", "j", "a", "v", "a">>
    IN  [p \in {fileN} \cup UNION {{fileM(m), settings_filepath(m)} : m \in JintoProjects} |->
            IF p = fileN
            THEN [exists |-> kindN # "absent",
                  content |-> IF kindN = "full" THEN textN
                              ELSE IF kindN = "nopackage"
                              THEN Tail_(textN, Find(textN, <<"\n">>, 1) + 1)
                              ELSE <<>>]
            ELSE IF \E m \in JintoProjects : p = fileM(m) /\ hasM[m]
            THEN [exists |-> TRUE, content |-> textM]
            ELSE IF \E m \in JintoProjects : p = settings_filepath(m) /\ hasSettings[m]
            THEN [exists |-> TRUE, content |-> <<"o", "l", "d", "\n">>]
            ELSE [exists |-> FALSE, content |-> <<>>]]

InitJinto ==
    /\ RewriteIdle
    /\ rrvs = RrvsIdle
    /\ build = BuildIdle
    /\ mainst = MainIdle
    /\ clean = CleanIdle
    /\ \E paths \in JintoPathLists, hasM \in [JintoProjects -> BOOLEAN],
          kindN \in {"absent", "full", "nopackage"},
          hasSettings \in [JintoProjects -> BOOLEAN], reversed \in BOOLEAN :
          LET disk == JintoDisk(hasM, kindN, hasSettings)
              javaFiles == {p \in DOMAIN disk : EndsWith(p, dotJava)}
          IN  jinto = [pc |-> "loop",
                       args |-> [module_paths |-> paths,
                                 parent_directory |-> parentDirectory],
                       listing |-> IF reversed THEN Reverse(SortedPaths(javaFiles))
                                   ELSE SortedPaths(javaFiles),
                       fs0 |-> disk,
                       fs |-> disk,
                       dirs |-> JintoProjects,
                       n |-> 0,
                       file_paths |-> <<>>,
                       calls |-> <<>>,
                       printed |-> <<>>,
                       archived |-> <<>>,
                       raised |-> "none"]

\* main, lines 152-163: one module path; the ValueError of
\* extract_accessor_and_properties leaves main
JintoModule ==
    /\ jinto.pc = "loop"
    /\ jinto.n < Len(jinto.args.module_paths)
    /\ LET module_path == abspath(jinto.args.module_paths[jinto.n + 1])
           filepaths == get_paths_to_all_Messages_classes(jinto.fs, jinto.listing, module_path)
           extracted == [k \in 1..Len(filepaths) |->
                            extract_accessor_and_properties(jinto.fs[filepaths[k]].content)]
           accessors_and_properties == [k \in 1..Len(filepaths) |-> extracted[k].value]
           data == generate_settings_data(accessors_and_properties)
           w == write_jinto_settings_file(jinto.fs, jinto.dirs, module_path, data)
       IN  IF module_path \notin jinto.dirs
           THEN jinto' = [jinto EXCEPT !.n = @ + 1]
           ELSE IF \E k \in 1..Len(filepaths) : extracted[k].err # "none"
           THEN jinto' = [jinto EXCEPT !.pc = "aborted", !.raised = "ValueError"]
           ELSE IF accessors_and_properties = <<>>
           THEN jinto' = [jinto EXCEPT !.n = @ + 1]
           ELSE jinto' = [jinto EXCEPT
                    !.n = @ + 1,
                    !.fs = w.files,
                    !.dirs = w.dirs,
                    !.file_paths = IF w.returned # <<>>
                                   THEN Append(@, relpath(w.returned[1],
                                                          jinto.args.parent_directory))
                                   ELSE @,
                    !.calls = Append(@, [module_path |-> module_path,
                                         pairs |-> accessors_and_properties,
                                         data |-> data,
                                         before |-> jinto.fs[settings_filepath(module_path)],
                                         after |-> w.files[settings_filepath(module_path)],
                                         returned |-> w.returned,
                                         listed |-> jinto.file_paths])]
    /\ UNCHANGED <<rewriteVars, rrvs, build, mainst, clean>>

\* main, lines 164-168: the list is printed and handed to create_tarball
JintoFinish ==
    /\ jinto.pc = "loop"
    /\ jinto.n = Len(jinto.args.module_paths)
    /\ jinto' = [jinto EXCEPT
                    !.pc = "done",
                    !.printed = [i \in 1..Len(jinto.file_paths) |->
                                    jinto.args.parent_directory \o <<"/">>
                                    \o jinto.file_paths[i]],
                    !.archived = jinto.file_paths]
    /\ UNCHANGED <<rewriteVars, rrvs, build, mainst, clean>>

NextJinto == JintoModule \/ JintoFinish

SpecJinto == InitJinto /\ [][NextJinto]_vars

-----------------------------------------------------------------------------
(* Properties of eclipse_jinto_setup.py                                     *)

\* the call c of write_jinto_settings_file found its settings file there
Refused(c) ==
    /\ c.before.exists
    /\ c.after = c.before
    /\ c.returned = <<>>

\* the call c of write_jinto_settings_file wrote its settings file
Wrote(c) ==
    /\ ~c.before.exists
    /\ c.after = [exists |-> TRUE, content |-> c.data]
    /\ c.returned = <<settings_filepath(c.module_path)>>

\* file_paths after the k-th call of write_jinto_settings_file
ListedAfter(k) ==
    IF k < Len(jinto.calls) THEN jinto.calls[k + 1].listed ELSE jinto.file_paths

Nth(S, k) == CHOOSE i \in S : Cardinality({j \in S : j < i}) = k - 1

\* the places of sub in s
Positions(s, sub) == {i \in 1..Len(s) : IsAt(s, sub, i)}

\* the data holds one block per pair, in the order of the pairs, each with
\* the pair's bundle and accessor, inside one root element that the version
\* marker follows
OneBlockPerPair(data, pairs) ==
    LET openTag == <<"<", "r", "e", "s", "o", "u", "r", "c", "e", "B", "u", "n", "d", "l",
      "e", "R", "e", "f", "e", "r", "e", "n", "c", "e", " ", "r", "e", "s",
      "o", "u", "r", "c", "e", "B", "u", "n", "d", "l", "e", "N", "a", "m",
      "e", "\\", "=", "\"">>
        accessorTag == <<"<", "a", "c", "c", "e", "s", "s", "o", "r", " ", "t", "y", "p", "e",
      "N", "a", "m", "e", "\\", "=", "\"">>
        closeTag == <<"<", "/", "r", "e", "s", "o", "u", "r", "c", "e", "B", "u", "n", "d",
      "l", "e", "R", "e", "f", "e", "r", "e", "n", "c", "e", ">">>
        quoteEnd == <<"\"", ">">>
        opens == Positions(data, openTag)
        accessors == Positions(data, accessorTag)
        closes == Positions(data, closeTag)
        rootOpens == Positions(data, <<"<", "r", "o", "o", "t", ">">>)
        rootCloses == Positions(data, <<"<", "/", "r", "o", "o", "t", ">">>)
    IN  /\ Cardinality(opens) = Len(pairs)
        /\ Cardinality(accessors) = Len(pairs)
        /\ Cardinality(closes) = Len(pairs)
        /\ \A k \in 1..Len(pairs) :
              /\ IsAt(data, pairs[k][2] \o quoteEnd, Nth(opens, k) + Len(openTag))
              /\ IsAt(data, pairs[k][1] \o quoteEnd, Nth(accessors, k) + Len(accessorTag))
              /\ Nth(opens, k) < Nth(accessors, k)
              /\ Nth(accessors, k) < Nth(closes, k)
              /\ k < Len(pairs) => Nth(closes, k) < Nth(opens, k + 1)
        /\ Cardinality(rootOpens) = 1
        /\ Cardinality(rootCloses) = 1
        /\ \A i \in opens : Nth(rootOpens, 1) < i
        /\ \A i \in closes : i < Nth(rootCloses, 1)
        /\ EndsWith(data, <<"<", "/", "r", "o", "o", "t", ">">> \o
                    <<"\n", "e", "c", "l", "i", "p", "s", "e", ".", "p",
                      "r", "e", "f", "e", "r", "e", "n", "c", "e", "s",
                      ".", "v", "e", "r", "s", "i", "o", "n", "=", "1", "\n">>)

\* the module paths main has gone through that are projects without an
\* accessor class
EmptyProjects ==
    {m \in {abspath(jinto.args.module_paths[i]) : i \in 1..jinto.n} :
        /\ m \in jinto.dirs
        /\ get_paths_to_all_Messages_classes(jinto.fs0, jinto.listing, m) = <<>>}

\* C16: for every non-empty list of pairs of a project, the data
\* generate_settings_data returns holds exactly one resourceBundleReference
\* block per pair, in the order of the list, with the pair's bundle as
\* resourceBundleName and the pair's accessor as typeName, in one root
\* element followed by the version marker; for a project without an
\* accessor class no settings file is produced.
C16_OneBlockPerAccessor ==
    /\ \A k \in 1..Len(jinto.calls) :
          OneBlockPerPair(jinto.calls[k].data, jinto.calls[k].pairs)
    /\ \A m \in EmptyProjects :
          /\ jinto.fs[settings_filepath(m)] = jinto.fs0[settings_filepath(m)]
          /\ \A k \in 1..Len(jinto.calls) : jinto.calls[k].module_path # m

\* the settings file of a project with two accessor classes was written, and
\* a project without accessor class and without settings file was passed
C16_Witness ==
    /\ jinto.pc = "done"
    /\ \E k \in 1..Len(jinto.calls) :
          /\ Len(jinto.calls[k].pairs) = 2
          /\ jinto.calls[k].pairs[1] # jinto.calls[k].pairs[2]
          /\ jinto.calls[k].after.content = jinto.calls[k].data
    /\ \E m \in EmptyProjects : ~jinto.fs[settings_filepath(m)].exists

=============================================================================
